---- MODULE Spec2Model ----
(***************************************************************************)
(* Model of the Game-Translator pipeline: the UI context (gui.rs), the     *)
(* overlay / message-loop thread (main.rs run_overlay_thread + wndproc)    *)
(* and the polling thread (main.rs capture_and_translate_loop).            *)
(***************************************************************************)
EXTENDS Integers, Sequences, FiniteSets, TLC

\* ------------------------------------------------------------------ bounds
MaxTicks == 3
MaxRuns == 1

\* ------------------------------------------------------- input alphabets
\* Source texts the recognizer can return and translations the backend can
\* return.  None is Rust's Option::None / an absent HashMap key.
Texts == {"A", "B"}
Trans == {"x", "y"}
None == "None"

\* Recognition results of one frame (region texts in region order).
Frames == { <<>>, <<"A">>, <<"B">>, <<"A", "A">>, <<"A", "B">> }

WM_CLOSE == "WM_CLOSE"
WM_RENDER == "WM_RENDER"
WM_QUIT == "WM_QUIT"

Clear == [kind |-> "Clear", texts |-> <<>>]
Draw(ts) == [kind |-> "Draw", texts |-> ts]

VARIABLES
    \* --- UI context (GameTranslatorApp)
    status,             \* AppStatus
    stop_signal,        \* Arc<AtomicBool>
    overlay_hwnd_raw,   \* Arc<AtomicIsize>: 0 or the published handle
    overlay_thread,     \* Option<JoinHandle>: TRUE = Some
    runs,               \* number of pipeline runs started
    ui_pc,              \* "run" | "joining" (on_exit blocked in join) | "exited"
    \* --- overlay thread (run_overlay_thread) and its window
    ot_pc,              \* position of the overlay thread
    window_alive,       \* the overlay window exists
    msgq,               \* the thread's posted-message queue
    rx_alive,           \* WndState (receiver + renderer) not yet dropped
    queue,              \* mpsc channel contents
    applied,            \* commands applied to the renderer, in order
    emitted,            \* commands successfully enqueued by tx.send, in order
    \* --- polling thread (capture_and_translate_loop)
    pt_pc,              \* position of the polling thread
    pt_exit,            \* why the polling thread ended
    close_requested,    \* the polling thread has posted WM_CLOSE
    translation_cache,  \* HashMap<String,String> as Texts -> Trans \cup {None}
    prev_texts,
    no_change_count,
    current_texts,
    uncached,           \* batch handed to translate_batch this tick
    translate_result,   \* "none" | "ok" | "err" for this tick
    translations,       \* Ok value of translate_batch while its arm runs
    insert_pos,         \* position of the insert loop's zip iterator
    new_entries,        \* the insert loop's flag
    interval,           \* delay chosen at the top of this tick
    slept,              \* durations slept during this tick, in order
    ticks,              \* loop iterations begun
    \* --- storage
    saved,              \* the map last handed to the write of translation_cache.json
    save_count,         \* number of save_cache calls in this tick
    \* --- components checked on their own
    call,               \* one call of a pure function: arguments and result
    ov,                 \* the Overlay renderer object (overlay.rs)
    cap                 \* the WindowCapture object (capture.rs)

fnVars == <<call, ov, cap>>
uiVars == <<status, stop_signal, overlay_hwnd_raw, overlay_thread, runs,
            ui_pc, fnVars>>
otVars == <<ot_pc, window_alive, msgq, rx_alive, queue, applied>>
ptVars == <<pt_pc, pt_exit, close_requested, translation_cache, prev_texts,
            no_change_count, current_texts, uncached, translate_result,
            translations, insert_pos, new_entries,
            interval, slept, ticks, emitted>>
stVars == <<saved, save_count>>
vars == <<uiVars, otVars, ptVars, stVars>>

\* ----------------------------------------------------------- pure helpers
EmptyCache == [t \in Texts |-> None]

\* a comparison that only looks at the positions both lists have
texts_changed_ZipOnly(current, previous) ==
    \E i \in 1..Len(current) :
        i <= Len(previous) /\ current[i] # previous[i]

\* main.rs texts_changed
texts_changed(current, previous) ==
    IF Len(current) # Len(previous) THEN TRUE
    ELSE \E i \in 1..Len(current) : current[i] # previous[i]

\* main.rs: current_texts.iter().filter(|t| !cache.contains_key(t))
RECURSIVE Uncached(_, _)
Uncached(cur, cache) ==
    IF cur = <<>> THEN <<>>
    ELSE IF cache[Head(cur)] = None
         THEN <<Head(cur)>> \o Uncached(Tail(cur), cache)
         ELSE Uncached(Tail(cur), cache)

\* a render list that is held back until every region has a cache entry
BuildTranslated_AllOrNothing(regions, cache) ==
    IF \E i \in 1..Len(regions) : cache[regions[i]] = None THEN <<>>
    ELSE [i \in 1..Len(regions) |-> cache[regions[i]]]

\* main.rs: render list built from cache lookups of the current regions
RECURSIVE BuildTranslated(_, _)
BuildTranslated(regions, cache) ==
    IF regions = <<>> THEN <<>>
    ELSE IF cache[Head(regions)] # None
         THEN <<cache[Head(regions)]>> \o BuildTranslated(Tail(regions), cache)
         ELSE BuildTranslated(Tail(regions), cache)

\* main.rs: interval chosen at the top of the loop
Interval(n) == IF n > 10 THEN 2000 ELSE IF n > 5 THEN 1000 ELSE 200

\* PostMessageW to the overlay window: queued only while the window exists
PostMessage(q, alive, m) == IF alive THEN Append(q, m) ELSE q

RECURSIVE Reverse(_)
Reverse(q) == IF q = <<>> THEN <<>> ELSE Append(Reverse(Tail(q)), Head(q))

\* a drain that applies the newest command first
DrainOrder_Lifo(q) == Reverse(q)

\* wndproc WM_RENDER: while let Ok(cmd) = rx.try_recv() { apply }
DrainOrder(q) == q

\* ---------------------------------------------------------------- Init
\* no pure-function call in progress / the renderer before Overlay::new
NoCall == [op |-> "none"]
NoOverlay == [state |-> "none"]

\* the frame source before WindowCapture::new
NoCapture == [state |-> "none"]

\* GameTranslatorApp::new: nothing started yet
PipelineInit ==
    /\ status = "Idle"
    /\ stop_signal = FALSE
    /\ overlay_hwnd_raw = 0
    /\ overlay_thread = FALSE
    /\ runs = 0
    /\ ot_pc = "none"
    /\ window_alive = FALSE
    /\ msgq = <<>>
    /\ rx_alive = FALSE
    /\ queue = <<>>
    /\ applied = <<>>
    /\ emitted = <<>>
    /\ pt_pc = "none"
    /\ pt_exit = "none"
    /\ close_requested = FALSE
    /\ translation_cache = EmptyCache
    /\ prev_texts = <<>>
    /\ no_change_count = 0
    /\ current_texts = <<>>
    /\ uncached = <<>>
    /\ translate_result = "none"
    /\ translations = <<>>
    /\ insert_pos = 0
    /\ new_entries = FALSE
    /\ interval = 0
    /\ slept = <<>>
    /\ ticks = 0
    /\ saved = EmptyCache
    /\ save_count = 0
    /\ ui_pc = "run"

Init ==
    /\ PipelineInit
    /\ call = NoCall
    /\ ov = NoOverlay
    /\ cap = NoCapture

\* ------------------------------------------------------------ UI context
\* gui.rs start(): validation failure
UI_StartInvalid ==
    /\ ui_pc = "run"
    /\ status \in {"Idle", "Error"}
    /\ status' = "Error"
    /\ UNCHANGED <<stop_signal, overlay_hwnd_raw, overlay_thread, runs>>
    /\ UNCHANGED <<ui_pc, fnVars>>
    /\ UNCHANGED <<otVars, ptVars, stVars>>

\* gui.rs start(): reset the stop signal and spawn the overlay thread
UI_StartUpTo(limit) ==
    /\ ui_pc = "run"
    /\ status \in {"Idle", "Error"}
    /\ runs < limit
    /\ stop_signal' = FALSE
    /\ overlay_thread' = TRUE
    /\ status' = "Running"
    /\ runs' = runs + 1
    /\ ot_pc' = "create_window"
    /\ window_alive' = FALSE
    /\ msgq' = <<>>
    /\ rx_alive' = FALSE
    /\ queue' = <<>>
    /\ applied' = <<>>
    /\ emitted' = <<>>
    /\ pt_pc' = "none"
    /\ pt_exit' = "none"
    /\ close_requested' = FALSE
    /\ translation_cache' = EmptyCache
    /\ prev_texts' = <<>>
    /\ no_change_count' = 0
    /\ current_texts' = <<>>
    /\ uncached' = <<>>
    /\ translate_result' = "none"
    /\ translations' = <<>>
    /\ insert_pos' = 0
    /\ new_entries' = FALSE
    /\ interval' = 0
    /\ slept' = <<>>
    /\ ticks' = 0
    /\ save_count' = 0
    /\ UNCHANGED <<overlay_hwnd_raw, saved>>
    /\ UNCHANGED <<ui_pc, fnVars>>

UI_Start == UI_StartUpTo(MaxRuns)

\* gui.rs stop()
UI_Stop ==
    /\ ui_pc = "run"
    /\ status = "Running"
    /\ stop_signal' = TRUE
    /\ msgq' = IF overlay_hwnd_raw # 0
               THEN PostMessage(msgq, window_alive, WM_CLOSE)
               ELSE msgq
    /\ status' = "Stopping"
    /\ UNCHANGED <<overlay_hwnd_raw, overlay_thread, runs>>
    /\ UNCHANGED <<ui_pc, fnVars>>
    /\ UNCHANGED <<ot_pc, window_alive, rx_alive, queue, applied>>
    /\ UNCHANGED <<ptVars, stVars>>

\* a handle taken for finished whatever the thread is doing
is_finished_Always(p) == TRUE

\* JoinHandle::is_finished
is_finished(p) == p = "finished"

\* a completion poll that does not ask whether the thread has ended
UI_PollThreadCompletion_Unchecked ==
    /\ ui_pc = "run"
    /\ status = "Stopping"
    /\ overlay_thread
    /\ overlay_thread' = FALSE
    /\ overlay_hwnd_raw' = 0
    /\ status' = "Idle"
    /\ UNCHANGED <<stop_signal, runs>>
    /\ UNCHANGED <<ui_pc, fnVars>>
    /\ UNCHANGED <<otVars, ptVars, stVars>>

\* gui.rs update() -> poll_thread_completion()
UI_PollThreadCompletion ==
    /\ ui_pc = "run"
    /\ status = "Stopping"
    /\ overlay_thread
    /\ is_finished(ot_pc)
    /\ overlay_thread' = FALSE
    /\ overlay_hwnd_raw' = 0
    /\ status' = "Idle"
    /\ UNCHANGED <<stop_signal, runs>>
    /\ UNCHANGED <<ui_pc, fnVars>>
    /\ UNCHANGED <<otVars, ptVars, stVars>>

\* gui.rs on_exit(): stop() if running, then take the handle and join
UI_OnExit ==
    /\ ui_pc = "run"
    /\ IF status \in {"Running", "Stopping"}
       THEN /\ stop_signal' = TRUE
            /\ msgq' = IF overlay_hwnd_raw # 0
                       THEN PostMessage(msgq, window_alive, WM_CLOSE)
                       ELSE msgq
            /\ status' = "Stopping"
            /\ overlay_thread' = FALSE
            /\ ui_pc' = IF overlay_thread THEN "joining" ELSE "exited"
       ELSE /\ ui_pc' = "exited"
            /\ UNCHANGED <<stop_signal, msgq, status, overlay_thread>>
    /\ UNCHANGED <<overlay_hwnd_raw, runs, fnVars>>
    /\ UNCHANGED <<ot_pc, window_alive, rx_alive, queue, applied>>
    /\ UNCHANGED <<ptVars, stVars>>

\* gui.rs on_exit(): handle.join() returns once the overlay thread is done
UI_ExitJoin ==
    /\ ui_pc = "joining"
    /\ ot_pc = "finished"
    /\ ui_pc' = "exited"
    /\ UNCHANGED <<status, stop_signal, overlay_hwnd_raw, overlay_thread, runs,
                   fnVars>>
    /\ UNCHANGED <<otVars, ptVars, stVars>>

\* ------------------------------------------- overlay thread (main.rs)
\* run_overlay_thread: create_transparent_window()? and publish the handle
OT_CreateWindow ==
    /\ ot_pc = "create_window"
    /\ \/ /\ window_alive' = TRUE
          /\ overlay_hwnd_raw' = runs
          /\ ot_pc' = "setup"
       \/ /\ ot_pc' = "finished"
          /\ UNCHANGED <<window_alive, overlay_hwnd_raw>>
    /\ UNCHANGED <<status, stop_signal, overlay_thread, runs, ui_pc, fnVars>>
    /\ UNCHANGED <<msgq, rx_alive, queue, applied>>
    /\ UNCHANGED <<ptVars, stVars>>

\* run_overlay_thread: Overlay::new, create_render_target, clear, channel,
\* WndState and the spawn of the capture thread; any `?` ends the thread,
\* which destroys its window without resetting the published handle
OT_Setup ==
    /\ ot_pc = "setup"
    /\ \/ /\ rx_alive' = TRUE
          /\ pt_pc' = "setup"
          /\ ot_pc' = "msg_loop"
          /\ UNCHANGED <<window_alive, msgq>>
       \/ /\ ot_pc' = "finished"
          /\ window_alive' = FALSE
          /\ msgq' = <<>>
          /\ UNCHANGED <<rx_alive, pt_pc>>
    /\ UNCHANGED <<uiVars, queue, applied, stVars>>
    /\ UNCHANGED <<pt_exit, close_requested, translation_cache, prev_texts,
                   no_change_count, current_texts, uncached, translate_result,
                   translations, insert_pos, new_entries,
                   interval, slept, ticks, emitted>>

\* GetMessageW / DispatchMessageW -> wndproc WM_RENDER: drain the channel
OT_DispatchRender ==
    /\ ot_pc = "msg_loop"
    /\ msgq # <<>>
    /\ Head(msgq) = WM_RENDER
    /\ msgq' = Tail(msgq)
    /\ applied' = IF rx_alive THEN applied \o DrainOrder(queue) ELSE applied
    /\ queue' = IF rx_alive THEN <<>> ELSE queue
    /\ UNCHANGED <<uiVars, ot_pc, window_alive, rx_alive, ptVars, stVars>>

\* a window that is destroyed without its WndState being dropped
OT_DispatchClose_KeepsState ==
    /\ ot_pc = "msg_loop"
    /\ msgq # <<>>
    /\ Head(msgq) = WM_CLOSE
    /\ window_alive' = FALSE
    /\ msgq' = <<WM_QUIT>>
    /\ UNCHANGED <<uiVars, ot_pc, rx_alive, queue, applied, ptVars, stVars>>

\* wndproc default WM_CLOSE -> DestroyWindow -> WM_DESTROY (PostQuitMessage)
\* and WM_NCDESTROY (drop WndState: receiver and renderer); messages still
\* queued for the destroyed window are discarded
OT_DispatchClose ==
    /\ ot_pc = "msg_loop"
    /\ msgq # <<>>
    /\ Head(msgq) = WM_CLOSE
    /\ window_alive' = FALSE
    /\ rx_alive' = FALSE
    /\ queue' = <<>>
    /\ msgq' = <<WM_QUIT>>
    /\ UNCHANGED <<uiVars, ot_pc, applied, ptVars, stVars>>

\* GetMessageW returns 0 on WM_QUIT: the message loop ends
OT_Quit ==
    /\ ot_pc = "msg_loop"
    /\ msgq # <<>>
    /\ Head(msgq) = WM_QUIT
    /\ msgq' = Tail(msgq)
    /\ ot_pc' = "join"
    /\ UNCHANGED <<uiVars, window_alive, rx_alive, queue, applied, ptVars, stVars>>

\* a thread handle that is dropped instead of joined
JoinReturns_Detached(p) == TRUE

\* JoinHandle::join returns once the joined thread has ended
JoinReturns(p) == p = "done"

\* capture_handle.join(); overlay_hwnd_arc.store(0)
OT_Join ==
    /\ ot_pc = "join"
    /\ JoinReturns(pt_pc)
    /\ overlay_hwnd_raw' = 0
    /\ ot_pc' = "finished"
    /\ UNCHANGED <<status, stop_signal, overlay_thread, runs, ui_pc, fnVars>>
    /\ UNCHANGED <<window_alive, msgq, rx_alive, queue, applied>>
    /\ UNCHANGED <<ptVars, stVars>>

\* ------------------------------------------- polling thread (main.rs)
\* locals of the Ok arm of the translate_batch match
insertVars == <<translations, insert_pos, new_entries>>

\* what a step of the loop outside the Ok arm leaves alone, the frame source
\* apart
loopUnchanged ==
    /\ UNCHANGED <<status, stop_signal, overlay_hwnd_raw, overlay_thread,
                   runs, ui_pc, call, ov, ot_pc, window_alive, rx_alive,
                   applied>>
    /\ UNCHANGED insertVars

otherUnchanged == loopUnchanged /\ UNCHANGED cap

\* a backoff that reuses the shortest tick interval
TranslateErrBackoff_TickInterval == Interval(0)

\* backoff after a failed translate_batch call (Duration::from_secs(2))
TranslateErrBackoff == 2000
\* a not-foreground tick that sleeps like any other tick
NotForegroundSleep_TickInterval == Interval(0)
\* sleep of a not-foreground tick
NotForegroundSleep == 500

\* capture_and_translate_loop before `loop`: WindowCapture::new,
\* OCREngine::new()?, load_cache()
Setup ==
    /\ pt_pc = "setup"
    /\ \/ /\ pt_pc' = "top"
          /\ translation_cache' = saved
          /\ UNCHANGED pt_exit
       \/ /\ pt_pc' = "done"
          /\ pt_exit' = "setup_error"
          /\ UNCHANGED translation_cache
    /\ UNCHANGED <<close_requested, prev_texts, no_change_count, current_texts,
                   uncached, translate_result, interval, slept, ticks, emitted>>
    /\ UNCHANGED <<msgq, queue, stVars>>
    /\ loopUnchanged

PT_Setup == Setup /\ UNCHANGED cap

\* top of the loop: stop_signal observed -> post WM_CLOSE, break
StopObserved ==
    /\ pt_pc = "top"
    /\ stop_signal
    /\ msgq' = PostMessage(msgq, window_alive, WM_CLOSE)
    /\ close_requested' = TRUE
    /\ pt_pc' = "done"
    /\ pt_exit' = "stop"
    /\ UNCHANGED <<translation_cache, prev_texts, no_change_count, current_texts,
                   uncached, translate_result, interval, slept, ticks, emitted>>
    /\ UNCHANGED <<queue, stVars>>
    /\ loopUnchanged

PT_StopObserved == StopObserved /\ UNCHANGED cap

\* a tick without new text: no_change_count += 1
NoChangeStep_Stuck(n) == n

NoChangeStep(n) == n + 1

\* what every tick that passes the stop check does first: fresh per-tick
\* locals and the interval chosen from the counter as it stands now
BeginTickOn(limit) ==
    /\ pt_pc = "top"
    /\ ~stop_signal
    /\ ticks < limit
    /\ ticks' = ticks + 1
    /\ interval' = Interval(no_change_count)
    /\ slept' = <<>>
    /\ translate_result' = "none"
    /\ save_count' = 0
    /\ UNCHANGED <<translation_cache, saved, emitted, queue>>
    /\ loopUnchanged

\* !IsWindow(target_hwnd): post WM_CLOSE, break
TargetClosed ==
    /\ BeginTickOn(MaxTicks)
    /\ msgq' = PostMessage(msgq, window_alive, WM_CLOSE)
    /\ close_requested' = TRUE
    /\ pt_pc' = "done"
    /\ pt_exit' = "target_closed"
    /\ current_texts' = <<>>
    /\ uncached' = <<>>
    /\ UNCHANGED <<prev_texts, no_change_count>>

PT_TargetClosed == TargetClosed /\ UNCHANGED cap

\* GetForegroundWindow() != target_hwnd
PT_NotForeground ==
    /\ BeginTickOn(MaxTicks)
    /\ UNCHANGED cap
    /\ pt_pc' = IF prev_texts # <<>> THEN "send_clear_fg" ELSE "sleep500"
    /\ current_texts' = <<>>
    /\ uncached' = <<>>
    /\ UNCHANGED <<msgq, close_requested, pt_exit, prev_texts, no_change_count>>

\* capture.capture_frame()? returns Err: the error leaves
\* capture_and_translate_loop
TickError ==
    /\ BeginTickOn(MaxTicks)
    /\ pt_pc' = "done"
    /\ pt_exit' = "error"
    /\ current_texts' = <<>>
    /\ uncached' = <<>>
    /\ UNCHANGED <<msgq, close_requested, prev_texts, no_change_count>>

PT_TickError == TickError /\ UNCHANGED cap

\* a tick without a frame that is counted as a tick without new text
CaptureNone_CountedAsNoChange ==
    /\ BeginTickOn(MaxTicks)
    /\ pt_pc' = "sleep"
    /\ current_texts' = <<>>
    /\ uncached' = <<>>
    /\ no_change_count' = NoChangeStep(no_change_count)
    /\ UNCHANGED <<msgq, close_requested, pt_exit, prev_texts>>

\* capture_frame() returns Ok(None): zero client width or height
CaptureNone ==
    /\ BeginTickOn(MaxTicks)
    /\ pt_pc' = "sleep"
    /\ current_texts' = <<>>
    /\ uncached' = <<>>
    /\ UNCHANGED <<msgq, close_requested, pt_exit, prev_texts, no_change_count>>

PT_CaptureNone == CaptureNone /\ UNCHANGED cap

\* a frame was captured and recognition returned the regions f
RecognizedFrame(f) ==
    /\ current_texts' = f
    /\ IF f # <<>>
       THEN IF texts_changed(f, prev_texts)
            THEN /\ no_change_count' = 0
                 /\ uncached' = Uncached(f, translation_cache)
                 /\ pt_pc' = IF uncached' # <<>> THEN "translating"
                             ELSE "send_draw"
            ELSE /\ no_change_count' = NoChangeStep(no_change_count)
                 /\ uncached' = <<>>
                 /\ pt_pc' = "sleep"
       ELSE /\ uncached' = <<>>
            /\ IF prev_texts # <<>>
               THEN /\ pt_pc' = "send_clear_empty"
                    /\ UNCHANGED no_change_count
               ELSE /\ pt_pc' = "sleep"
                    /\ no_change_count' = NoChangeStep(no_change_count)
    /\ UNCHANGED <<msgq, close_requested, pt_exit, prev_texts>>

\* capture_frame() returns a frame: the tick calls ocr.detect_text(..) and
\* waits in its .await for RecognizeAsync, while the other threads run
CaptureSomeUpTo(limit) ==
    /\ BeginTickOn(limit)
    /\ pt_pc' = "recognizing"
    /\ current_texts' = <<>>
    /\ uncached' = <<>>
    /\ UNCHANGED <<msgq, close_requested, pt_exit, prev_texts, no_change_count>>

CaptureSome == CaptureSomeUpTo(MaxTicks)

PT_CaptureSome == CaptureSome /\ UNCHANGED cap

\* what the wait in detect_text leaves alone
recognizingUnchanged ==
    /\ UNCHANGED <<translation_cache, translate_result, interval, slept,
                   ticks, emitted>>
    /\ UNCHANGED <<queue, stVars>>
    /\ loopUnchanged

\* ocr.detect_text(..).await? returns Err: the error leaves
\* capture_and_translate_loop
DetectError ==
    /\ pt_pc = "recognizing"
    /\ pt_pc' = "done"
    /\ pt_exit' = "error"
    /\ UNCHANGED <<msgq, close_requested, prev_texts, no_change_count,
                   current_texts, uncached>>
    /\ recognizingUnchanged

PT_DetectError == DetectError /\ UNCHANGED cap

\* ocr.detect_text(..).await returns the regions f: the rest of the tick
\* up to its next wait
RecognizedAs(f) ==
    /\ pt_pc = "recognizing"
    /\ RecognizedFrame(f)
    /\ recognizingUnchanged
    /\ UNCHANGED cap

PT_Recognized == \E f \in Frames : RecognizedAs(f)

\* outcomes of translator.translate_batch(uncached): Err, or Ok with one
\* Option per input (translate.rs: results = vec![None; texts.len()])
TranslateOutcomes(batch) == [1..Len(batch) -> Trans \cup {None}]

\* translate_batch(..).await returned Err: log, sleep 2 s, go on to draw
PT_TranslateErr ==
    /\ pt_pc = "translating"
    /\ translate_result' = "err"
    /\ slept' = Append(slept, TranslateErrBackoff)
    /\ pt_pc' = "send_draw"
    /\ UNCHANGED <<translation_cache, saved, save_count>>
    /\ UNCHANGED <<pt_exit, close_requested, prev_texts, no_change_count,
                   current_texts, uncached, interval, ticks, emitted>>
    /\ UNCHANGED <<msgq, queue>>
    /\ otherUnchanged

\* translate_batch(..).await returned Ok(translations): the Ok arm starts
\* with new_entries = false and the zip iterator at its first pair
PT_TranslateOk ==
    /\ pt_pc = "translating"
    /\ \E res \in TranslateOutcomes(uncached) : translations' = res
    /\ translate_result' = "ok"
    /\ insert_pos' = 1
    /\ new_entries' = FALSE
    /\ pt_pc' = "inserting"
    /\ UNCHANGED <<pt_exit, close_requested, translation_cache, prev_texts,
                   no_change_count, current_texts, uncached, interval, slept,
                   ticks, emitted>>
    /\ UNCHANGED <<msgq, queue, stVars>>
    /\ UNCHANGED <<uiVars, ot_pc, window_alive, rx_alive, applied>>

\* pairs the zip of uncached and translations yields
ZipLen == IF Len(uncached) < Len(translations) THEN Len(uncached)
          ELSE Len(translations)

\* translation_cache.insert(orig.clone(), t.clone())
InsertEntry(cache, orig, t) == [cache EXCEPT ![orig] = t]

\* one pass of `for (orig, trans) in uncached.iter().zip(..)`: a Some is
\* inserted and sets new_entries, a None is only logged
PT_InsertNext ==
    /\ pt_pc = "inserting"
    /\ insert_pos <= ZipLen
    /\ IF translations[insert_pos] # None
       THEN /\ translation_cache' =
                   InsertEntry(translation_cache, uncached[insert_pos],
                               translations[insert_pos])
            /\ new_entries' = TRUE
       ELSE UNCHANGED <<translation_cache, new_entries>>
    /\ insert_pos' = insert_pos + 1
    /\ UNCHANGED <<pt_pc, pt_exit, close_requested, prev_texts,
                   no_change_count, current_texts, uncached, translate_result,
                   translations, interval, slept, ticks, emitted>>
    /\ UNCHANGED <<msgq, queue, stVars>>
    /\ UNCHANGED <<uiVars, ot_pc, window_alive, rx_alive, applied>>

\* a loop end that writes the cache file whatever the flag says
PT_InsertDone_AlwaysSaves ==
    /\ pt_pc = "inserting"
    /\ insert_pos > ZipLen
    /\ saved' = translation_cache
    /\ save_count' = save_count + 1
    /\ pt_pc' = "send_draw"
    /\ translations' = <<>>
    /\ insert_pos' = 0
    /\ new_entries' = FALSE
    /\ UNCHANGED <<pt_exit, close_requested, translation_cache, prev_texts,
                   no_change_count, current_texts, uncached, translate_result,
                   interval, slept, ticks, emitted>>
    /\ UNCHANGED <<msgq, queue>>
    /\ UNCHANGED <<uiVars, ot_pc, window_alive, rx_alive, applied>>

\* the iterator is exhausted: `if new_entries { save_cache(..) }`, and the
\* arm's locals go out of scope. save_cache hands the whole map to
\* std::fs::write and ignores its result.
PT_InsertDone ==
    /\ pt_pc = "inserting"
    /\ insert_pos > ZipLen
    /\ IF new_entries
       THEN /\ saved' = translation_cache
            /\ save_count' = save_count + 1
       ELSE UNCHANGED <<saved, save_count>>
    /\ pt_pc' = "send_draw"
    /\ translations' = <<>>
    /\ insert_pos' = 0
    /\ new_entries' = FALSE
    /\ UNCHANGED <<pt_exit, close_requested, translation_cache, prev_texts,
                   no_change_count, current_texts, uncached, translate_result,
                   interval, slept, ticks, emitted>>
    /\ UNCHANGED <<msgq, queue>>
    /\ UNCHANGED <<uiVars, ot_pc, window_alive, rx_alive, applied>>

\* tx.send(cmd): fails once the receiver has been dropped
Send(cmd, next) ==
    /\ IF rx_alive
       THEN /\ queue' = Append(queue, cmd)
            /\ emitted' = Append(emitted, cmd)
            /\ pt_pc' = next
            /\ UNCHANGED pt_exit
       ELSE /\ pt_pc' = "done"
            /\ pt_exit' = "receiver_dropped"
            /\ UNCHANGED <<queue, emitted>>
    /\ UNCHANGED <<close_requested, translation_cache, prev_texts,
                   no_change_count, current_texts, uncached, translate_result,
                   interval, slept, ticks>>
    /\ UNCHANGED <<msgq, stVars>>
    /\ loopUnchanged

\* a polling thread that applies the command to the renderer itself
PT_Send_RenderDirect(cmd, next) ==
    /\ applied' = Append(applied, cmd)
    /\ emitted' = Append(emitted, cmd)
    /\ pt_pc' = next
    /\ UNCHANGED <<pt_exit, queue, close_requested, translation_cache,
                   prev_texts, no_change_count, current_texts, uncached,
                   translate_result, interval, slept, ticks>>
    /\ UNCHANGED <<msgq, stVars>>
    /\ UNCHANGED <<uiVars, ot_pc, window_alive, rx_alive>>
    /\ UNCHANGED insertVars

PT_Send(cmd, next) == Send(cmd, next) /\ UNCHANGED cap

\* tx.send(RenderCommand::Draw(translated_texts))
PT_SendDraw ==
    /\ pt_pc = "send_draw"
    /\ PT_Send(Draw(BuildTranslated(current_texts, translation_cache)),
               "wake_draw")

\* tx.send(RenderCommand::Clear) of a not-foreground tick / of an empty frame
PT_SendClear ==
    /\ pt_pc \in {"send_clear_fg", "send_clear_empty"}
    /\ PT_Send(Clear, IF pt_pc = "send_clear_fg" THEN "wake_clear_fg"
                      ELSE "wake_clear_empty")

\* an enqueue that is not followed by a wake-up
PostWake_Missing(q, alive) == q

\* the wake-up posted after an enqueued command
PostWake(q, alive) == PostMessage(q, alive, WM_RENDER)

\* PostMessageW(WM_RENDER) after Draw; prev_texts = current_texts
PT_WakeDraw ==
    /\ pt_pc = "wake_draw"
    /\ msgq' = PostWake(msgq, window_alive)
    /\ prev_texts' = current_texts
    /\ pt_pc' = "sleep"
    /\ UNCHANGED <<pt_exit, close_requested, translation_cache, no_change_count,
                   current_texts, uncached, translate_result, interval, slept,
                   ticks, emitted>>
    /\ UNCHANGED <<queue, stVars>>
    /\ otherUnchanged

\* a Clear after which the previous text list is kept
PT_WakeClear_KeepsPrevious ==
    /\ pt_pc \in {"wake_clear_fg", "wake_clear_empty"}
    /\ msgq' = PostWake(msgq, window_alive)
    /\ IF pt_pc = "wake_clear_fg"
       THEN /\ pt_pc' = "sleep500"
            /\ UNCHANGED no_change_count
       ELSE /\ pt_pc' = "sleep"
            /\ no_change_count' = NoChangeStep(no_change_count)
    /\ UNCHANGED <<pt_exit, close_requested, translation_cache, prev_texts,
                   current_texts, uncached, translate_result, interval, slept,
                   ticks, emitted>>
    /\ UNCHANGED <<queue, stVars>>
    /\ otherUnchanged

\* PostMessageW(WM_RENDER) after Clear; prev_texts.clear()
PT_WakeClear ==
    /\ pt_pc \in {"wake_clear_fg", "wake_clear_empty"}
    /\ msgq' = PostWake(msgq, window_alive)
    /\ prev_texts' = <<>>
    /\ IF pt_pc = "wake_clear_fg"
       THEN /\ pt_pc' = "sleep500"
            /\ UNCHANGED no_change_count
       ELSE /\ pt_pc' = "sleep"
            /\ no_change_count' = NoChangeStep(no_change_count)
    /\ UNCHANGED <<pt_exit, close_requested, translation_cache,
                   current_texts, uncached, translate_result, interval, slept,
                   ticks, emitted>>
    /\ UNCHANGED <<queue, stVars>>
    /\ otherUnchanged

\* the sleep that ends a tick: 500 ms then `continue` when not foreground,
\* otherwise the interval chosen at the top of the tick
PT_Sleep ==
    /\ pt_pc \in {"sleep", "sleep500"}
    /\ slept' = Append(slept, IF pt_pc = "sleep500" THEN NotForegroundSleep
                              ELSE interval)
    /\ pt_pc' = "top"
    /\ UNCHANGED <<pt_exit, close_requested, translation_cache, prev_texts,
                   no_change_count, current_texts, uncached, translate_result,
                   interval, ticks, emitted>>
    /\ UNCHANGED <<msgq, queue, stVars>>
    /\ otherUnchanged

\* ------------------------------------------------------------ specification
UI == UI_StartInvalid \/ UI_Start \/ UI_Stop \/ UI_PollThreadCompletion

OverlayThread ==
    \/ OT_CreateWindow \/ OT_Setup \/ OT_DispatchRender \/ OT_DispatchClose
    \/ OT_Quit \/ OT_Join

PollingThread ==
    \/ PT_Setup \/ PT_StopObserved \/ PT_TargetClosed \/ PT_NotForeground
    \/ PT_TickError \/ PT_CaptureNone \/ PT_CaptureSome \/ PT_DetectError
    \/ PT_Recognized
    \/ PT_TranslateErr \/ PT_TranslateOk \/ PT_InsertNext \/ PT_InsertDone
    \/ PT_SendDraw \/ PT_SendClear
    \/ PT_WakeDraw \/ PT_WakeClear \/ PT_Sleep

Next == UI \/ OverlayThread \/ PollingThread

Spec == Init /\ [][Next]_vars

\* the same pipeline with the window being closed by the user (on_exit)
ExitNext == Next \/ UI_OnExit \/ UI_ExitJoin

ExitSpec == Init /\ [][ExitNext]_vars

\* the pipeline started again after a run has ended
MaxRestarts == 1

UI_Restart == UI_StartUpTo(MaxRuns + MaxRestarts)

RestartNext ==
    \/ UI_StartInvalid \/ UI_Restart \/ UI_Stop \/ UI_PollThreadCompletion
    \/ OverlayThread \/ PollingThread

RestartSpec == Init /\ [][RestartNext]_vars

\* The end-to-end scenario of the adaptive delay: the target stays in the
\* foreground and every tick recognizes the same non-empty text, for
\* StaticTicks ticks; nobody presses Stop.
StaticTicks == 20

StaticFrame == <<"A">>

ST_CaptureSome == CaptureSomeUpTo(StaticTicks) /\ UNCHANGED cap

ST_Recognized == RecognizedAs(StaticFrame)

StaticNext ==
    \/ UI_Start \/ OT_CreateWindow \/ OT_Setup \/ OT_DispatchRender
    \/ PT_Setup \/ ST_CaptureSome \/ ST_Recognized
    \/ PT_TranslateErr \/ PT_TranslateOk \/ PT_InsertNext \/ PT_InsertDone
    \/ PT_SendDraw \/ PT_WakeDraw \/ PT_Sleep

StaticSpec == Init /\ [][StaticNext]_vars

\* ------------------------------------------------- functions on their own
\* One call of a function of the program: `call` holds the arguments, and
\* after the call its result. The pipeline is not started.
pipelineVars == <<status, stop_signal, overlay_hwnd_raw, overlay_thread,
                  runs, ui_pc, ov, cap, otVars, ptVars, stVars>>

SeqsUpTo(S, n) == UNION { [1..k -> S] : k \in 0..n }

\* longest list of recognized texts given to texts_changed
MaxList == 2

TextsChangedCalls ==
    [op : {"texts_changed"},
     current : SeqsUpTo(Texts, MaxList), previous : SeqsUpTo(Texts, MaxList),
     done : {FALSE}, result : {FALSE}]

FN_texts_changed ==
    /\ call.op = "texts_changed"
    /\ ~call.done
    /\ call' = [call EXCEPT !.done = TRUE,
                            !.result = texts_changed(call.current, call.previous)]
    /\ UNCHANGED pipelineVars

\* --- translate.rs: strings are sequences of characters
NL == "\n"

Whitespace == {" ", NL}

RECURSIVE TrimStart(_)
TrimStart(t) ==
    IF t # <<>> /\ Head(t) \in Whitespace THEN TrimStart(Tail(t)) ELSE t

RECURSIVE TrimEnd(_)
TrimEnd(t) ==
    IF t # <<>> /\ t[Len(t)] \in Whitespace
    THEN TrimEnd(SubSeq(t, 1, Len(t) - 1)) ELSE t

\* str::trim
Trim(t) == TrimEnd(TrimStart(t))

\* t.trim().is_empty()
IsBlank(t) == Trim(t) = <<>>

\* texts.iter().enumerate().filter(|(_, t)| !t.trim().is_empty()).map(|(i, _)| i)
RECURSIVE NonEmptyIndicesFrom(_, _)
NonEmptyIndicesFrom(texts, i) ==
    IF i > Len(texts) THEN <<>>
    ELSE (IF IsBlank(texts[i]) THEN <<>> ELSE <<i>>)
         \o NonEmptyIndicesFrom(texts, i + 1)

NonEmptyIndices(texts) == NonEmptyIndicesFrom(texts, 1)

\* results indexed by the position in the input instead of in the request
MapBack_ByOriginalIndex(n, non_empty_indices, translated) ==
    [i \in 1..n |->
        IF (\E k \in 1..Len(non_empty_indices) : non_empty_indices[k] = i)
           /\ i <= Len(translated)
        THEN translated[i] ELSE None]

\* the loop that maps the backend's results back to the original indices
MapBack(n, non_empty_indices, translated) ==
    [i \in 1..n |->
        IF \E k \in 1..Len(non_empty_indices) :
              non_empty_indices[k] = i /\ k <= Len(translated)
        THEN translated[CHOOSE k \in 1..Len(non_empty_indices) :
                           non_empty_indices[k] = i]
        ELSE None]

\* longest batch given to translate_batch
MaxBatch == 3

\* the texts of a batch: "", " ", "h", " k"
BatchItems == { <<>>, <<" ">>, <<"h">>, <<" ", "k">> }

\* what the backend answers for the j-th text of the request
Translated(j) == ToString(j)

TranslateBatchCalls ==
    [op : {"translate_batch"}, texts : SeqsUpTo(BatchItems, MaxBatch),
     done : {FALSE}, called : {FALSE}, request : {<<>>}, response : {<<>>},
     ok : {FALSE}, result : {<<>>}]

\* the backend fails, or answers with any number of results up to one more
\* than requested, each a translation or None (parse_numbered_response)
FN_translate_batch ==
    /\ call.op = "translate_batch"
    /\ ~call.done
    /\ LET texts == call.texts
           non_empty_indices == NonEmptyIndices(texts)
           non_empty_texts == [k \in 1..Len(non_empty_indices) |->
                                  texts[non_empty_indices[k]]]
       IN IF texts = <<>>
          THEN call' = [call EXCEPT !.done = TRUE, !.ok = TRUE, !.result = <<>>]
          ELSE IF non_empty_indices = <<>>
          THEN call' = [call EXCEPT !.done = TRUE, !.ok = TRUE,
                                    !.result = [i \in 1..Len(texts) |-> None]]
          ELSE \/ call' = [call EXCEPT !.done = TRUE, !.called = TRUE,
                                       !.request = non_empty_texts,
                                       !.ok = FALSE]
               \/ \E len \in 0..(Len(non_empty_texts) + 1) :
                  \E some \in [1..len -> BOOLEAN] :
                     LET translated == [j \in 1..len |->
                             IF some[j] THEN Translated(j) ELSE None]
                     IN call' = [call EXCEPT
                            !.done = TRUE, !.called = TRUE,
                            !.request = non_empty_texts,
                            !.response = translated,
                            !.ok = TRUE,
                            !.result = MapBack(Len(texts), non_empty_indices,
                                               translated)]
    /\ UNCHANGED pipelineVars

\* --- translate.rs parse_numbered_response
\* Option<String>: None, Some(text)
NoText == <<>>

SomeText(t) == <<t>>

\* position of the first line feed of raw, 0 if there is none
FirstNL(raw) ==
    IF \E i \in 1..Len(raw) : raw[i] = NL
    THEN CHOOSE i \in 1..Len(raw) :
            raw[i] = NL /\ \A j \in 1..(i - 1) : raw[j] # NL
    ELSE 0

\* str::lines
RECURSIVE SplitLines(_)
SplitLines(raw) ==
    IF raw = <<>> THEN <<>>
    ELSE IF FirstNL(raw) = 0 THEN <<raw>>
    ELSE <<SubSeq(raw, 1, FirstNL(raw) - 1)>>
         \o SplitLines(SubSeq(raw, FirstNL(raw) + 1, Len(raw)))

\* trimmed.find(". "): position of the first ". ", 0 if there is none
FindDotSpace(t) ==
    IF \E i \in 1..(Len(t) - 1) : t[i] = "." /\ t[i + 1] = " "
    THEN CHOOSE i \in 1..(Len(t) - 1) :
            /\ t[i] = "." /\ t[i + 1] = " "
            /\ \A j \in 1..(i - 1) : ~(t[j] = "." /\ t[j + 1] = " ")
    ELSE 0

DigitVal ==
    "0" :> 0 @@ "1" :> 1 @@ "2" :> 2 @@ "3" :> 3 @@ "4" :> 4 @@
    "5" :> 5 @@ "6" :> 6 @@ "7" :> 7 @@ "8" :> 8 @@ "9" :> 9

\* parse::<usize>() succeeds on a non-empty string of decimal digits
IsUsize(t) == t # <<>> /\ \A i \in 1..Len(t) : t[i] \in DOMAIN DigitVal

RECURSIVE ParseUsize(_)
ParseUsize(t) ==
    IF t = <<>> THEN 0
    ELSE 10 * ParseUsize(SubSeq(t, 1, Len(t) - 1)) + DigitVal[t[Len(t)]]

\* matched_num: the number and the text of a line "N. text" with
\* 1 <= N <= count; num = 0 stands for None
MatchLine(trimmed, count) ==
    LET dot_pos == FindDotSpace(trimmed)
        prefix == Trim(SubSeq(trimmed, 1, dot_pos - 1))
    IN IF dot_pos # 0 /\ IsUsize(prefix)
          /\ ParseUsize(prefix) >= 1 /\ ParseUsize(prefix) <= count
       THEN [num |-> ParseUsize(prefix),
             text |-> SubSeq(trimmed, dot_pos + 2, Len(trimmed))]
       ELSE [num |-> 0, text |-> <<>>]

\* results[prev - 1] = Some(current_text.trim())
Finalize(results, count, current_num, current_text) ==
    IF current_num >= 1 /\ current_num <= count
    THEN [results EXCEPT ![current_num] = SomeText(Trim(current_text))]
    ELSE results

\* a line without a number is dropped
Continuation_Dropped(current_text, trimmed) == current_text

\* a line without a number continues the text of the current item
Continuation(current_text, trimmed) == current_text \o <<" ">> \o trimmed

\* the loop over raw.lines() and the final Finalize
RECURSIVE ParseLoop(_, _, _, _, _, _)
ParseLoop(lines, i, count, results, current_num, current_text) ==
    IF i > Len(lines)
    THEN Finalize(results, count, current_num, current_text)
    ELSE LET trimmed == Trim(lines[i])
             m == MatchLine(trimmed, count)
         IN IF trimmed = <<>>
            THEN ParseLoop(lines, i + 1, count, results, current_num,
                           current_text)
            ELSE IF m.num # 0
            THEN ParseLoop(lines, i + 1, count,
                           Finalize(results, count, current_num, current_text),
                           m.num, m.text)
            ELSE IF current_num # 0
            THEN ParseLoop(lines, i + 1, count, results, current_num,
                           Continuation(current_text, trimmed))
            ELSE ParseLoop(lines, i + 1, count, results, current_num,
                           current_text)

parse_numbered_response(raw, count) ==
    LET results == ParseLoop(SplitLines(raw), 1, count,
                             [k \in 1..count |-> NoText], 0, <<>>)
    IN IF count = 1 /\ results[1] = NoText /\ Trim(raw) # <<>>
       THEN [results EXCEPT ![1] = SomeText(Trim(raw))]
       ELSE results

\* most lines in a response, most items asked for
MaxRespLines == 3

MaxCount == 2

\* the lines a response is made of: "1. a", "2. b", "3. c", "2 b", "x", "",
\* " 1. a b " and "12. d"
RespLines ==
    { <<"1", ".", " ", "a">>, <<"2", ".", " ", "b">>, <<"3", ".", " ", "c">>,
      <<"2", " ", "b">>, <<"x">>, <<>>,
      <<" ", "1", ".", " ", "a", " ", "b", " ">>,
      <<"1", "2", ".", " ", "d">> }

\* lines joined by line feeds
RECURSIVE JoinLines(_)
JoinLines(ls) ==
    IF ls = <<>> THEN <<>>
    ELSE IF Len(ls) = 1 THEN ls[1]
    ELSE ls[1] \o <<NL>> \o JoinLines(Tail(ls))

ParseCalls ==
    { [op |-> "parse_numbered_response", lines |-> ls, raw |-> JoinLines(ls),
       count |-> c, done |-> FALSE, result |-> <<>>] :
         ls \in SeqsUpTo(RespLines, MaxRespLines), c \in 1..MaxCount }

FN_parse_numbered_response ==
    /\ call.op = "parse_numbered_response"
    /\ ~call.done
    /\ call' = [call EXCEPT !.done = TRUE,
                            !.result = parse_numbered_response(call.raw,
                                                               call.count)]
    /\ UNCHANGED pipelineVars

\* --- ocr.rs group_into_paragraphs
\* a threshold rounded up instead of down
Threshold_RoundedUp(prev_height) == (4 * prev_height + 4) \div 5

\* (prev_height as f32 * 0.8) as i32: the cast drops the fraction
Threshold(prev_height) ==
    IF prev_height >= 0 THEN (4 * prev_height) \div 5
    ELSE -((4 * (-prev_height)) \div 5)

\* a gap test without the lower bound
GapInRange_NoLowerBound(gap, threshold) == gap < threshold

\* gap >= 0 && gap < threshold
GapInRange(gap, threshold) == gap >= 0 /\ gap < threshold

Abs(v) == IF v < 0 THEN -v ELSE v

\* the condition under which a line joins the current paragraph
ShouldMerge(line, prev_x, prev_y, prev_height) ==
    LET gap == line.y - (prev_y + prev_height)
        x_diff == Abs(line.x - prev_x)
        threshold == Threshold(prev_height)
    IN GapInRange(gap, threshold) /\ x_diff < prev_height * 2

\* the loop over lines[1..]: cur is the paragraph being built, prev the
\* line before this one
RECURSIVE GroupLoop(_, _, _, _, _)
GroupLoop(lines, i, paragraphs, cur, prev) ==
    IF i > Len(lines) THEN Append(paragraphs, cur)
    ELSE LET line == lines[i]
         IN IF ShouldMerge(line, prev.x, prev.y, prev.height)
            THEN GroupLoop(lines, i + 1, paragraphs,
                    [text |-> cur.text \o <<" ">> \o line.text,
                     x |-> cur.x, y |-> cur.y,
                     width |-> IF line.width > cur.width THEN line.width
                               ELSE cur.width,
                     height |-> IF line.height > cur.height THEN line.height
                                ELSE cur.height],
                    line)
            ELSE GroupLoop(lines, i + 1, Append(paragraphs, cur), line, line)

\* a loop that starts at lines[2..] and so passes over the second line
group_into_paragraphs_SkipsSecondLine(lines) ==
    IF lines = <<>> THEN <<>>
    ELSE GroupLoop(lines, 3, <<>>, lines[1], lines[1])

group_into_paragraphs(lines) ==
    IF lines = <<>> THEN <<>>
    ELSE GroupLoop(lines, 2, <<>>, lines[1], lines[1])

RawLine(t, x, y, w, h) ==
    [text |-> <<t>>, x |-> x, y |-> y, width |-> w, height |-> h]

\* most raw lines in one frame
MaxLines == 3

\* the raw lines a frame is made of
RawLines ==
    { RawLine("a", 0, 0, 100, 20), RawLine("b", 0, 18, 120, 20),
      RawLine("c", 0, 80, 90, 20), RawLine("d", 0, 30, 150, 10),
      RawLine("e", 30, 36, 80, 24), RawLine("f", 0, 0, 100, 21),
      RawLine("g", 0, 37, 110, 20), RawLine("h", 40, 25, 60, 20),
      RawLine("i", 39, 45, 70, 30) }

GroupCalls ==
    [op : {"group_into_paragraphs"}, lines : SeqsUpTo(RawLines, MaxLines),
     done : {FALSE}, result : {<<>>}]

FN_group_into_paragraphs ==
    /\ call.op = "group_into_paragraphs"
    /\ ~call.done
    /\ call' = [call EXCEPT !.done = TRUE,
                            !.result = group_into_paragraphs(call.lines)]
    /\ UNCHANGED pipelineVars

\* --- ocr.rs OCREngine::new
\* str::to_lowercase on the letters that occur in the tags
LowerOf == "E" :> "e" @@ "N" :> "n" @@ "U" :> "u" @@ "S" :> "s" @@
           "J" :> "j" @@ "A" :> "a"

ToLower(t) ==
    [i \in 1..Len(t) |-> IF t[i] \in DOMAIN LowerOf THEN LowerOf[t[i]] ELSE t[i]]

\* str::starts_with
StartsWith(t, prefix) ==
    Len(prefix) <= Len(t) /\ SubSeq(t, 1, Len(prefix)) = prefix

\* the language the selection loop prefers: the literal "en"
PreferredPrefix == <<"e", "n">>

\* most recognizer languages installed on the host
MaxLangs == 2

\* language tags: "en-US", "ja", "de"
LangTags == { <<"e", "n", "-", "U", "S">>, <<"j", "a">>, <<"d", "e">> }

\* configured source languages: "EN", "JA"
SourceLangs == { <<"E", "N">>, <<"J", "A">> }

\* the first language from position i on that has the preferred prefix and
\* for which TryCreateFromLanguage succeeds; <<>> if the loop ends without
RECURSIVE FirstPreferred(_, _, _)
FirstPreferred(langs, i, creatable) ==
    IF i > Len(langs) THEN <<>>
    ELSE IF StartsWith(ToLower(langs[i]), PreferredPrefix)
            /\ langs[i] \in creatable
    THEN langs[i]
    ELSE FirstPreferred(langs, i + 1, creatable)

\* OCREngine::new: [ok, engine]; the configured source language is not an
\* argument of the function
OCREngine_new(langs, creatable) ==
    IF Len(langs) = 0 THEN [ok |-> FALSE, engine |-> <<>>]
    ELSE LET preferred == FirstPreferred(langs, 1, creatable)
         IN IF preferred # <<>> THEN [ok |-> TRUE, engine |-> preferred]
            ELSE IF langs[1] \in creatable
            THEN [ok |-> TRUE, engine |-> langs[1]]
            ELSE [ok |-> FALSE, engine |-> <<>>]

OcrNewCalls ==
    { [op |-> "OCREngine_new", source_lang |-> sl, langs |-> ls,
       creatable |-> cr, done |-> FALSE, ok |-> FALSE, engine |-> <<>>] :
         sl \in SourceLangs,
         ls \in { l \in SeqsUpTo(LangTags, MaxLangs) :
                    \A i, j \in 1..Len(l) : l[i] = l[j] => i = j },
         cr \in SUBSET LangTags }

FN_OCREngine_new ==
    /\ call.op = "OCREngine_new"
    /\ ~call.done
    /\ LET r == OCREngine_new(call.langs, call.creatable)
       IN call' = [call EXCEPT !.done = TRUE, !.ok = r.ok, !.engine = r.engine]
    /\ UNCHANGED pipelineVars

FnInit ==
    /\ PipelineInit
    /\ ov = NoOverlay
    /\ cap = NoCapture
    /\ \/ call \in TextsChangedCalls
       \/ call \in TranslateBatchCalls
       \/ call \in ParseCalls
       \/ call \in GroupCalls
       \/ call \in OcrNewCalls

FnNext ==
    \/ FN_texts_changed
    \/ FN_translate_batch
    \/ FN_parse_numbered_response
    \/ FN_group_into_paragraphs
    \/ FN_OCREngine_new

FnSpec == FnInit /\ [][FnNext]_vars

\* ------------------------------------------------ the renderer on its own
\* overlay.rs Overlay: `ov` holds the renderer's resources, what the layered
\* window shows, and a record of the last render()/clear() call.
overlayRest == <<status, stop_signal, overlay_hwnd_raw, overlay_thread,
                 runs, ui_pc, call, cap, otVars, ptVars, stVars>>

\* render()/clear() calls made on one renderer
MaxOverlayCalls == 2

\* HRESULTs of a failing graphics call: the one render() and clear() look
\* for (0x8899000C) and any other
D2DERR_RECREATE_TARGET == "D2DERR_RECREATE_TARGET"

E_FAIL == "E_FAIL"

Codes == {D2DERR_RECREATE_TARGET, E_FAIL}

\* font sizes are in tenths of a point: 5.0, 12.4, 12.6
RenderInputs == { <<>>, <<124>>, <<126, 50>> }

\* font_size.max(8.0) as u32
FormatKey(font_size) == (IF font_size < 80 THEN 80 ELSE font_size) \div 10

FormatKeys(texts) == { FormatKey(texts[i]) : i \in 1..Len(texts) }

NothingShown == [kind |-> "none", texts |-> <<>>]

NoLastCall ==
    [op |-> "none", input |-> <<>>, early |-> FALSE, first |-> "none",
     attempts |-> <<>>, rebuilds |-> 0, rebuild_ok |-> FALSE, result |-> "none"]

\* Overlay::new
OV_New ==
    /\ ov.state = "none"
    /\ ov' = [state |-> "new", dc_render_target |-> FALSE,
              bg_brush |-> FALSE, text_brush |-> FALSE,
              text_format_cache |-> {}, memory_dc |-> FALSE,
              presented |-> NothingShown, screen_dcs |-> 0, calls |-> 0,
              last |-> NoLastCall, teardown |-> <<>>]
    /\ UNCHANGED overlayRest

\* create_render_target: the fields are assigned only when every step
\* succeeded
OV_CreateRenderTarget ==
    /\ ov.state = "new"
    /\ \E ok \in BOOLEAN :
          ov' = IF ok
                THEN [ov EXCEPT !.state = "bound", !.dc_render_target = TRUE,
                                !.bg_brush = TRUE, !.text_brush = TRUE,
                                !.memory_dc = TRUE]
                ELSE [ov EXCEPT !.state = "failed"]
    /\ UNCHANGED overlayRest

\* the keys of the items before item i
KeysBefore(texts, i) == { FormatKey(texts[j]) : j \in 1..(i - 1) }

\* the items whose format has to be created when the loop reaches them:
\* the key is neither cached nor made for an earlier item of this call
FormatMisses(o, texts) ==
    { i \in 1..Len(texts) :
        FormatKey(texts[i]) \notin
            (o.text_format_cache \cup KeysBefore(texts, i)) }

\* where render_inner can stop, and with which error; item is the item
\* whose format could not be created (0 when the formats were resolved)
RenderOutcomes(o, texts) ==
    {[at |-> "done", code |-> "ok", item |-> 0],
     [at |-> "getdc", code |-> "bail", item |-> 0]}
    \cup [at : {"bind", "enddraw", "present"}, code : Codes, item : {0}]
    \cup [at : {"format"}, code : Codes, item : FormatMisses(o, texts)]

\* render_inner: formats first, each inserted into the cache as soon as it
\* is made, so a failure keeps the formats of the items before it; then
\* draw into the surface, then present; a failing UpdateLayeredWindow
\* returns before ReleaseDC
render_inner(o, texts, out) ==
    [o EXCEPT
       !.text_format_cache = IF out.at = "format"
                             THEN @ \cup KeysBefore(texts, out.item)
                             ELSE @ \cup FormatKeys(texts),
       !.presented = IF out.at = "done" THEN [kind |-> "draw", texts |-> texts]
                     ELSE @,
       !.screen_dcs = IF out.at = "present" THEN @ + 1 ELSE @]

ClearOutcomes ==
    {[at |-> "done", code |-> "ok"], [at |-> "getdc", code |-> "bail"]}
    \cup [at : {"bind", "enddraw", "present"}, code : Codes]

clear_inner(o, out) ==
    [o EXCEPT
       !.presented = IF out.at = "done" THEN [kind |-> "clear", texts |-> <<>>]
                     ELSE @,
       !.screen_dcs = IF out.at = "present" THEN @ + 1 ELSE @]

\* where recreate_render_resources can stop
RecreateOutcomes ==
    {[at |-> "done", code |-> "ok"]}
    \cup [at : {"target", "bind", "cast", "bg_brush", "text_brush"},
          code : Codes]

\* a rebuild that keeps the old render target when it fails
recreate_render_resources_KeepsTarget(o, out) ==
    [o EXCEPT
       !.bg_brush = out.at \in {"text_brush", "done"},
       !.text_brush = out.at = "done",
       !.text_format_cache = {}]

\* recreate_render_resources: drop everything, then rebuild against
\* memory_dc; dc_render_target is assigned last
recreate_render_resources(o, out) ==
    [o EXCEPT
       !.bg_brush = out.at \in {"text_brush", "done"},
       !.text_brush = out.at = "done",
       !.text_format_cache = {},
       !.dc_render_target = out.at = "done"]

\* every error taken for a lost render target
IsRecreate_AnyError(code) == code # "ok"

\* we.code() == HRESULT(0x8899000C) on a windows::core::Error
IsRecreate(code) == code = D2DERR_RECREATE_TARGET

Inner(op, o, input, out) ==
    IF op = "render" THEN render_inner(o, input, out) ELSE clear_inner(o, out)

\* the body shared by render() and clear(): early return, first attempt,
\* and on the recreate error a rebuild and a second attempt
Recovering(op, input, Outcomes) ==
    /\ ov.state \in {"new", "failed", "bound"}
    /\ ov.calls < MaxOverlayCalls
    /\ LET Done(o, early, first, attempts, rebuilds, rebuild_ok, result) ==
              [o EXCEPT !.calls = @ + 1,
                        !.last = [op |-> op, input |-> input, early |-> early,
                                  first |-> first, attempts |-> attempts,
                                  rebuilds |-> rebuilds,
                                  rebuild_ok |-> rebuild_ok,
                                  result |-> result]]
       IN IF ~ov.dc_render_target \/ ~ov.memory_dc
          THEN ov' = Done(ov, TRUE, "none", <<>>, 0, FALSE, "ok")
          ELSE \E first \in Outcomes :
                 LET o1 == Inner(op, ov, input, first)
                 IN IF first.code = "ok" \/ ~IsRecreate(first.code)
                    THEN ov' = Done(o1, FALSE, first.code, <<input>>, 0, FALSE,
                                    first.code)
                    ELSE \E rb \in RecreateOutcomes :
                           LET o2 == recreate_render_resources(o1, rb)
                           IN IF rb.code # "ok"
                              THEN ov' = Done(o2, FALSE, first.code, <<input>>,
                                              1, FALSE, rb.code)
                              ELSE \E second \in
                                        (IF op = "render"
                                         THEN RenderOutcomes(o2, input)
                                         ELSE ClearOutcomes) :
                                     ov' = Done(Inner(op, o2, input, second),
                                                FALSE, first.code,
                                                <<input, input>>, 1, TRUE,
                                                second.code)
    /\ UNCHANGED overlayRest

OV_Render ==
    \E texts \in RenderInputs :
        Recovering("render", texts, RenderOutcomes(ov, texts))

OV_Clear == Recovering("clear", <<>>, ClearOutcomes)

OverlayInit ==
    PipelineInit /\ call = NoCall /\ ov = NoOverlay /\ cap = NoCapture

\* impl Drop for Overlay, followed by the drop of the fields that drop()
\* left in place: teardown lists what is released, in order. drop() empties
\* the brushes, the format cache and the render target, deletes bitmap and
\* memory DC if there is one and calls CoUninitialize; the two factories are
\* fields without an Option and are released when drop() has returned.
OV_Drop ==
    /\ ov.state \in {"new", "failed", "bound"}
    /\ ov' = [ov EXCEPT
                !.state = "dropped",
                !.bg_brush = FALSE, !.text_brush = FALSE,
                !.text_format_cache = {},
                !.dc_render_target = FALSE,
                !.memory_dc = FALSE,
                !.teardown =
                    (IF ov.bg_brush THEN <<"bg_brush">> ELSE <<>>)
                    \o (IF ov.text_brush THEN <<"text_brush">> ELSE <<>>)
                    \o (IF ov.text_format_cache # {}
                        THEN <<"text_format_cache">> ELSE <<>>)
                    \o (IF ov.dc_render_target
                        THEN <<"dc_render_target">> ELSE <<>>)
                    \o (IF ov.memory_dc THEN <<"bitmap", "memory_dc">>
                        ELSE <<>>)
                    \o <<"CoUninitialize", "factory", "write_factory">>]
    /\ UNCHANGED overlayRest

OverlayNext ==
    OV_New \/ OV_CreateRenderTarget \/ OV_Render \/ OV_Clear \/ OV_Drop

OverlaySpec == OverlayInit /\ [][OverlayNext]_vars

\* --------------------------------------------- the frame source on its own
\* capture.rs WindowCapture: `cap` holds the object's fields, the device
\* contexts of the process it is answerable for, and a record of the last
\* capture_frame() call.
captureRest == <<status, stop_signal, overlay_hwnd_raw, overlay_thread,
                 runs, ui_pc, call, ov, otVars, ptVars, stVars>>

\* capture_frame() calls made on one frame source
MaxCaptures == 3

\* client widths and heights of the target window
Sizes == {0, 1, 2}

NoLastCapture ==
    [width |-> 0, height |-> 0, had_surface |-> FALSE, old_width |-> 0,
     old_height |-> 0, freed |-> 0, attempts |-> 0, allocs |-> 0,
     result |-> "none"]

\* WindowCapture::new: no surface yet
NewCapture ==
    [state |-> "live", width |-> 0, height |-> 0, memory_dc |-> FALSE,
     window_dcs |-> 0, orphan_dcs |-> 0, calls |-> 0, last |-> NoLastCapture]

CAP_New ==
    /\ cap.state = "none"
    /\ cap' = NewCapture
    /\ UNCHANGED captureRest

\* where the reallocation in ensure_dib can stop
EnsureDibOutcomes == {"ok", "getdc", "create_dc", "dib_section"}

\* a size test that forgets whether a surface exists
NeedsRealloc_SizeOnly(c, width, height) ==
    ~(c.width = width /\ c.height = height)

\* ensure_dib's early return, negated
NeedsRealloc(c, width, height) ==
    ~(c.width = width /\ c.height = height /\ c.memory_dc)

\* free_dib
free_dib(c) == [c EXCEPT !.memory_dc = FALSE]

\* ensure_dib past its early return: free the old surface, then GetDC,
\* CreateCompatibleDC, ReleaseDC, CreateDIBSection, SelectObject and the
\* field assignments; a failing CreateDIBSection returns with the new
\* memory DC neither stored nor deleted
ensure_dib(c, width, height, out) ==
    LET f == free_dib(c)
    IN IF out = "ok"
       THEN [f EXCEPT !.memory_dc = TRUE, !.width = width, !.height = height]
       ELSE IF out = "dib_section"
       THEN [f EXCEPT !.orphan_dcs = @ + 1]
       ELSE f

\* capture_frame on the object c: GetClientRect, the zero-size return,
\* ensure_dib, then GetDC / PrintWindow / BitBlt / ReleaseDC and the copy of
\* the pixels; the objects the call can leave behind, one per outcome
CaptureFrameResults(c) ==
    LET Done(d, width, height, freed, attempts, allocs, result) ==
            [d EXCEPT !.calls = @ + 1,
                      !.last = [width |-> width, height |-> height,
                                had_surface |-> c.memory_dc,
                                old_width |-> c.width,
                                old_height |-> c.height,
                                freed |-> freed, attempts |-> attempts,
                                allocs |-> allocs, result |-> result]]
    IN {Done(c, 0, 0, 0, 0, 0, "err_client_rect")}
       \cup UNION {
          IF width = 0 \/ height = 0
          THEN {Done(c, width, height, 0, 0, 0, "none")}
          ELSE IF ~NeedsRealloc(c, width, height)
          THEN {Done(c, width, height, 0, 0, 0, "frame")}
          ELSE {Done(ensure_dib(c, width, height, out), width, height,
                     IF c.memory_dc THEN 1 ELSE 0, 1,
                     IF out = "ok" THEN 1 ELSE 0,
                     IF out = "ok" THEN "frame" ELSE "err")
                  : out \in EnsureDibOutcomes}
          : width \in Sizes, height \in Sizes }

\* one capture_frame call after which the object lives on
capture_frame ==
    /\ cap.state = "live"
    /\ cap.calls < MaxCaptures
    /\ cap' \in CaptureFrameResults(cap)

\* a capture_frame call on the frame source alone
CAP_CaptureFrame == capture_frame /\ UNCHANGED captureRest

\* impl Drop for WindowCapture: free_dib
DropCapture(c) == [free_dib(c) EXCEPT !.state = "dropped"]

CAP_Drop ==
    /\ cap.state = "live"
    /\ cap' = DropCapture(cap)
    /\ UNCHANGED captureRest

CaptureInit ==
    PipelineInit /\ call = NoCall /\ ov = NoOverlay /\ cap = NoCapture

CaptureNext == CAP_New \/ CAP_CaptureFrame \/ CAP_Drop

CaptureSpec == CaptureInit /\ [][CaptureNext]_vars

\* ------------------------------ the polling loop with its frame source
\* The pipeline with the WindowCapture object that capture_and_translate_loop
\* owns. `capture` is a local of the function: it is made in the set-up,
\* each tick that reaches `capture.capture_frame()?` makes one capture_frame
\* call and goes on according to its result, and whichever step returns from
\* the function drops it. The UI and the overlay thread run as in Next.

\* the frame source c after a step of the loop: dropped if the step returned
\* from capture_and_translate_loop
AfterStep(c) == IF pt_pc' = "done" THEN DropCapture(c) ELSE c

\* WindowCapture::new(target_hwnd)?, OCREngine::new()?, load_cache()
TK_Setup == Setup /\ cap' = AfterStep(NewCapture)

TK_StopObserved == StopObserved /\ cap' = AfterStep(cap)

TK_TargetClosed == TargetClosed /\ cap' = AfterStep(cap)

\* capture_frame() returned Ok(None)
TK_CaptureNone ==
    capture_frame /\ cap'.last.result = "none" /\ CaptureNone

\* capture_frame() returned Err: the error leaves the function
TK_TickError ==
    /\ cap.state = "live"
    /\ cap.calls < MaxCaptures
    /\ TickError
    /\ \E c \in CaptureFrameResults(cap) :
          /\ c.last.result \notin {"none", "frame"}
          /\ cap' = AfterStep(c)

\* capture_frame() returned a frame, handed to detect_text
TK_CaptureSome ==
    capture_frame /\ cap'.last.result = "frame" /\ CaptureSome

TK_DetectError == DetectError /\ cap' = AfterStep(cap)

\* tx.send(cmd) with the return on a dropped receiver
TK_Send(cmd, next) == Send(cmd, next) /\ cap' = AfterStep(cap)

\* tx.send(RenderCommand::Draw(translated_texts))
TK_SendDraw ==
    /\ pt_pc = "send_draw"
    /\ TK_Send(Draw(BuildTranslated(current_texts, translation_cache)),
               "wake_draw")

\* tx.send(RenderCommand::Clear)
TK_SendClear ==
    /\ pt_pc \in {"send_clear_fg", "send_clear_empty"}
    /\ TK_Send(Clear, IF pt_pc = "send_clear_fg" THEN "wake_clear_fg"
                      ELSE "wake_clear_empty")

TickNext ==
    \/ UI \/ OverlayThread
    \/ TK_Setup \/ TK_StopObserved \/ TK_TargetClosed
    \/ PT_NotForeground \/ TK_TickError \/ TK_CaptureNone \/ TK_CaptureSome
    \/ TK_DetectError \/ PT_Recognized
    \/ PT_TranslateErr \/ PT_TranslateOk \/ PT_InsertNext \/ PT_InsertDone
    \/ TK_SendDraw \/ TK_SendClear
    \/ PT_WakeDraw \/ PT_WakeClear \/ PT_Sleep

TickSpec == Init /\ [][TickNext]_vars

\* Scheduling: both threads keep running when they can take a step, and the
\* UI repaints (and so polls) continuously while the status is Stopping.
\* Clicking Start or Stop is the user's choice and carries no fairness.
FairSpec ==
    /\ Spec
    /\ WF_vars(OverlayThread)
    /\ WF_vars(PollingThread)
    /\ WF_vars(UI_PollThreadCompletion)

TypeOK ==
    /\ status \in {"Idle", "Running", "Stopping", "Error"}
    /\ stop_signal \in BOOLEAN
    /\ overlay_hwnd_raw \in 0..(MaxRuns + MaxRestarts)
    /\ ot_pc \in {"none", "create_window", "setup", "msg_loop", "join", "finished"}
    /\ pt_pc \in {"none", "setup", "top", "recognizing", "translating",
                 "inserting",
                  "send_draw", "wake_draw",
                  "send_clear_fg", "wake_clear_fg", "send_clear_empty",
                  "wake_clear_empty", "sleep", "sleep500", "done"}
    /\ translation_cache \in [Texts -> Trans \cup {None}]
    /\ saved \in [Texts -> Trans \cup {None}]
    /\ translations \in TranslateOutcomes(uncached) \cup {<<>>}
    /\ insert_pos \in 0..(Len(uncached) + 1)
    /\ new_entries \in BOOLEAN

\* ------------------------------------------------------------------ claims
IsPrefix(a, b) == Len(a) <= Len(b) /\ SubSeq(b, 1, Len(a)) = a
InSeq(x, q) == \E j \in 1..Len(q) : q[j] = x
NoDup(q) == \A i, j \in 1..Len(q) : q[i] = q[j] => i = j

\* C1: after stop() both threads eventually terminate and the UI status
\* eventually returns to Idle, in every interleaving of stop() with start-up,
\* a running tick and a set-up failure of the polling thread.
C1_StopLeadsToIdle ==
    (status = "Stopping") ~>
        (status = "Idle" /\ ot_pc = "finished" /\ pt_pc \in {"none", "done"})

\* C2: whenever the polling loop has ended by the stop signal, by the target
\* window being gone or by an error, it has posted the close request to the
\* overlay window.
C2_PollingExitRequestsClose ==
    (pt_pc = "done" /\ pt_exit \in {"stop", "target_closed", "error"})
        => close_requested

\* C3: once started, the polling loop ends only on the stop signal or on the
\* target window being gone; a capture or recognition error never ends it.
C3_ErrorsNeverEndLoop ==
    (pt_pc = "done" /\ pt_exit \notin {"setup_error", "receiver_dropped"})
        => pt_exit \in {"stop", "target_closed"}

\* C4: a failed translate_batch call makes the loop wait 2 seconds and go on
\* with the tick; it inserts nothing into the cache and saves nothing.
C4_TranslateErrBacksOff ==
    [][(pt_pc = "translating" /\ translate_result' = "err") =>
          /\ pt_pc' = "send_draw"
          /\ pt_exit' = "none"
          /\ slept' = Append(slept, 2000)
          /\ translation_cache' = translation_cache
          /\ saved' = saved
          /\ save_count' = save_count]_vars

C4_Witness ==
    /\ translate_result = "err"
    /\ pt_pc = "top"
    /\ slept = <<2000, 200>>
    /\ ticks < MaxTicks

\* C5: on a tick that recognizes a text which is not in the cache, that text
\* is part of the batch sent to the Translator (so a text left untranslated
\* earlier is retried while it stays on screen).
C5_UncachedTextIsSent ==
    (pt_pc \in {"translating", "send_draw", "sleep"} /\ translate_result = "none")
        => \A i \in 1..Len(current_texts) :
              translation_cache[current_texts[i]] = None
                  => InSeq(current_texts[i], uncached)

\* C6: a batch handed to the Translator contains no text that has a cache
\* entry and contains no text more than once.
C6_BatchHasNoCachedNoDuplicate ==
    pt_pc = "translating" =>
        /\ \A i \in 1..Len(uncached) : translation_cache[uncached[i]] = None
        /\ NoDup(uncached)

\* C7 as stated: within a run the cache is append-only: from one step of
\* the loop to the next every entry present stays present with the same
\* value; no entry is removed or overwritten.
C7_CacheAppendOnly ==
    [][runs' = runs =>
          \A t \in Texts : translation_cache[t] # None =>
              translation_cache'[t] = translation_cache[t]]_vars

\* C8: the cache file is written on a tick if and only if that tick inserted
\* a new entry, and what is written is the whole in-memory map. The write
\* is the one at the end of the insert loop; once the map is loaded the file
\* and the map agree outside the loop, so the entries the map has and the file lacks when the
\* loop ends are the ones this tick inserted.
C8_SaveIffNewEntry ==
    [][(runs' = runs /\ pt_pc # "setup") =>
          /\ (save_count' > save_count) <=>
                 /\ pt_pc = "inserting" /\ pt_pc' # "inserting"
                 /\ \E t \in Texts : translation_cache[t] # saved[t]
          /\ (save_count' > save_count) =>
                 /\ saved' = translation_cache'
                 /\ translation_cache' = translation_cache
                 /\ save_count' = 1
          /\ ~(save_count' > save_count) => saved' = saved
          /\ translation_cache' # translation_cache =>
                 /\ pt_pc = "inserting" /\ pt_pc' = "inserting"
                 /\ translate_result = "ok"
                 /\ save_count = 0
          /\ (pt_pc' \notin {"none", "setup", "inserting"}
                /\ pt_exit' # "setup_error") =>
                 saved' = translation_cache']_vars

C8_Witness ==
    /\ save_count = 1
    /\ pt_pc = "sleep"
    /\ saved = translation_cache
    /\ saved["A"] # None
    /\ saved["B"] = None
    /\ current_texts = <<"A", "B">>

\* C9: the commands applied to the renderer are, in order, a prefix of the
\* commands enqueued; while the receiver exists the rest is exactly the queue.
C9_AppliedInEnqueueOrder ==
    /\ IsPrefix(applied, emitted)
    /\ rx_alive => applied \o queue = emitted

C9_Witness ==
    /\ Len(applied) = 2
    /\ applied[1] # applied[2]
    /\ emitted = applied
    /\ msgq = <<WM_RENDER>>

\* C10 as stated: every command enqueued is applied, so when the message loop
\* has ended nothing that was enqueued is left unapplied.
C10_AllEnqueuedApplied ==
    ot_pc \in {"join", "finished"} => applied = emitted

\* C10 amended: every enqueued command is eventually applied unless the
\* overlay window is destroyed first; a command waiting in the queue always
\* has a wake-up pending or about to be posted.
C10_WakePending ==
    (rx_alive /\ queue # <<>>) =>
        \/ InSeq(WM_RENDER, msgq)
        \/ pt_pc \in {"wake_draw", "wake_clear_fg", "wake_clear_empty"}

C10_AppliedUnlessClosed ==
    /\ []C10_WakePending
    /\ \A n \in 1..MaxTicks :
          (Len(emitted) >= n) ~> (Len(applied) >= n \/ ~rx_alive)

C10_Witness ==
    /\ Len(applied) = 3
    /\ rx_alive
    /\ queue = <<>>
    /\ msgq = <<WM_RENDER, WM_RENDER>>

\* C11 as stated: once stop() has posted the close signal and the message
\* loop has exited, the overlay thread the UI waits for can finish at once,
\* whatever the polling thread is doing.
C11_WaitEndsWithMessageLoop ==
    (status = "Stopping" /\ ot_pc = "join") => ENABLED OT_Join

\* C11 amended: the message loop exits without waiting for the polling
\* thread, but the overlay thread (and with it the UI-side wait: the join of
\* on_exit, is_finished of poll_thread_completion) finishes only after the
\* polling thread it spawned has ended.
C11_WaitEndsAfterPollingEnds ==
    /\ ot_pc = "finished" => pt_pc \in {"none", "done"}
    /\ ui_pc = "exited" => (ot_pc \in {"none", "finished"}
                            /\ pt_pc \in {"none", "done"})
    /\ (status = "Idle" /\ runs > 0) => ot_pc = "finished"

C11_Witness ==
    /\ ui_pc = "exited"
    /\ status = "Stopping"
    /\ ot_pc = "finished"
    /\ pt_exit = "stop"
    /\ translate_result = "err"
    /\ slept = <<2000, 200>>

\* ---------------------------------------------------------------- C12, C13
\* the delay the scenario of C12 names for tick k (ticks counted from 1)
ExpectedDelay(k) == IF k > 11 THEN 2000 ELSE IF k > 6 THEN 1000 ELSE 200

\* C12 as stated: with identical non-empty text on 20 consecutive ticks,
\* the delay slept after tick k is 200 ms up to tick 6, 1000 ms for ticks
\* 7..11 and 2000 ms from tick 12 on.
C12_DelaySchedule ==
    (pt_pc = "top" /\ ticks >= 1) => slept[Len(slept)] = ExpectedDelay(ticks)

\* C13 as stated: the delay slept at the end of a tick is the one the
\* no-change counter gives as it stands after that tick's processing.
C13_DelayFromCounterAfterTick ==
    [][(pt_pc = "sleep" /\ pt_pc' = "top")
         => slept'[Len(slept')] = Interval(no_change_count)]_vars

\* ---------------------------------------------------------------- C14
\* C14: on a tick whose recognized list equals the previous cycle's list the
\* tick goes straight to its sleep: the Translator is not invoked, no
\* RenderCommand is emitted, cache and cache file are not modified and the
\* no-change counter grows by exactly one; and nothing of that happens
\* during the sleep that ends the tick either.
C14_UnchangedTickIsIdle ==
    [][/\ (PT_Recognized /\ current_texts' = prev_texts)
            => /\ pt_pc' = "sleep"
               /\ no_change_count' = no_change_count + 1
               /\ uncached' = <<>>
               /\ translate_result' = "none"
               /\ emitted' = emitted
               /\ queue' = queue
               /\ msgq' = msgq
               /\ translation_cache' = translation_cache
               /\ saved' = saved
               /\ save_count' = 0
       /\ pt_pc = "sleep"
            => /\ pt_pc' \in {"sleep", "top"}
               /\ translate_result' = translate_result
               /\ emitted' = emitted
               /\ translation_cache' = translation_cache
               /\ saved' = saved]_vars

C14_Witness ==
    /\ pt_pc = "sleep"
    /\ ticks >= 2
    /\ current_texts = prev_texts
    /\ current_texts = <<"A", "B">>
    /\ no_change_count = 1
    /\ translate_result = "none"
    /\ Len(emitted) = 1

\* ---------------------------------------------------------------- C19
\* C19: texts_changed(current, previous) is false exactly when the two lists
\* have the same length and are equal position by position; any difference
\* in length or in an element makes it true, and two empty lists give false.
C19_TextsChangedIffDifferent ==
    (call.op = "texts_changed" /\ call.done) =>
        /\ call.result = FALSE <=>
              /\ Len(call.current) = Len(call.previous)
              /\ \A i \in 1..Len(call.current) : call.current[i] = call.previous[i]
        /\ Len(call.current) # Len(call.previous) => call.result = TRUE
        /\ (call.current = <<>> /\ call.previous = <<>>) => call.result = FALSE

\* the spec's example of a difference in length only: ["A","B"] against ["A"]
C19_Witness ==
    /\ call.op = "texts_changed"
    /\ call.done
    /\ call.current = <<"A", "B">>
    /\ call.previous = <<"A">>
    /\ call.result = TRUE

\* ---------------------------------------------------------------- C15
\* position of input i among the non-blank inputs
RankOf(texts, i) == Cardinality({ j \in 1..i : ~IsBlank(texts[j]) })

\* C15: a successful translate_batch returns as many results as inputs,
\* result i being the backend's answer for input i (None when the backend
\* answered fewer); blank inputs map to None and are not in the request;
\* the backend is not called for an empty or all-blank input.
C15_BatchKeepsLengthAndOrder ==
    (call.op = "translate_batch" /\ call.done) =>
        /\ call.called <=> \E i \in 1..Len(call.texts) : ~IsBlank(call.texts[i])
        /\ call.called =>
              /\ call.request = SelectSeq(call.texts, LAMBDA t : ~IsBlank(t))
              /\ \A k \in 1..Len(call.request) : ~IsBlank(call.request[k])
        /\ ~call.called => call.ok
        /\ call.ok =>
              /\ Len(call.result) = Len(call.texts)
              /\ \A i \in 1..Len(call.texts) :
                    IF IsBlank(call.texts[i])
                    THEN call.result[i] = None
                    ELSE /\ call.request[RankOf(call.texts, i)] = call.texts[i]
                         /\ call.result[i] =
                               IF RankOf(call.texts, i) <= Len(call.response)
                               THEN call.response[RankOf(call.texts, i)]
                               ELSE None

\* a blank text between two others, and a backend that answered one result
\* for the two texts requested
C15_Witness ==
    /\ call.op = "translate_batch"
    /\ call.done
    /\ call.ok
    /\ call.texts = << <<"h">>, <<" ">>, <<" ", "k">> >>
    /\ call.request = << <<"h">>, <<" ", "k">> >>
    /\ call.response = << "1" >>
    /\ call.result = << "1", None, None >>

\* ---------------------------------------------------------------- C16
\* the item a response line is numbered for (0: none) and the line's text
LineNum(line, count) == MatchLine(Trim(line), count).num

LineText(line, count) == MatchLine(Trim(line), count).text

\* C16 as stated: the result has count entries; an item without a numbered
\* line is None, and an item with one line "k. text" gets exactly that text,
\* whatever the other lines are.
C16_MissingLineAffectsOnlyItsItem ==
    (call.op = "parse_numbered_response" /\ call.done) =>
        /\ Len(call.result) = call.count
        /\ \A k \in 1..call.count :
              LET owners == { i \in 1..Len(call.lines) :
                                 LineNum(call.lines[i], call.count) = k }
              IN /\ owners = {} => call.result[k] = NoText
                 /\ \A i \in owners :
                       owners = {i} =>
                          call.result[k] =
                             SomeText(Trim(LineText(call.lines[i], call.count)))

\* the non-blank lines from..to, trimmed, each preceded by a space
RECURSIVE Continued(_, _, _)
Continued(lines, from, to) ==
    IF from > to THEN <<>>
    ELSE (IF Trim(lines[from]) = <<>> THEN <<>>
          ELSE <<" ">> \o Trim(lines[from]))
         \o Continued(lines, from + 1, to)

\* C16 amended: the result has count entries; item k is the text of the last
\* line numbered k followed by every later non-blank line up to the next
\* numbered line, joined by spaces and trimmed; an item without a numbered
\* line is None, except that with count = 1 it is the whole trimmed response
\* when that is not blank.
C16_ItemIsLastNumberedLineAndContinuation ==
    (call.op = "parse_numbered_response" /\ call.done) =>
        /\ Len(call.result) = call.count
        /\ \A k \in 1..call.count :
              LET n == Len(call.lines)
                  owners == { i \in 1..n : LineNum(call.lines[i], call.count) = k }
                  last == CHOOSE i \in owners : \A j \in owners : j <= i
                  later == { j \in (last + 1)..n :
                                LineNum(call.lines[j], call.count) # 0 }
                  stop == IF later = {} THEN n + 1
                          ELSE CHOOSE j \in later : \A l \in later : j <= l
              IN IF owners = {}
                 THEN call.result[k] =
                         IF call.count = 1 /\ Trim(call.raw) # <<>>
                         THEN SomeText(Trim(call.raw)) ELSE NoText
                 ELSE call.result[k] =
                         SomeText(Trim(LineText(call.lines[last], call.count)
                                       \o Continued(call.lines, last + 1, stop - 1)))

\* "1. a" followed by the malformed line "2 b": item 1 is "a 2 b", item 2 None
C16_Witness ==
    /\ call.op = "parse_numbered_response"
    /\ call.done
    /\ call.count = 2
    /\ call.lines = << <<"1", ".", " ", "a">>, <<"2", " ", "b">> >>
    /\ call.result = << SomeText(<<"a", " ", "2", " ", "b">>), NoText >>

\* ---------------------------------------------------------------- C17, C18
GapTo(line, prev) == line.y - (prev.y + prev.height)

\* the merge condition as C17 states it: gap in [0, 0.8 * prev.height)
MergesAsStated(line, prev) ==
    /\ GapTo(line, prev) >= 0
    /\ 5 * GapTo(line, prev) < 4 * prev.height
    /\ Abs(line.x - prev.x) < 2 * prev.height

\* the same with 0.8 * prev.height cut down to an integer: gap below the
\* integer part of 0.8 * h, that is gap + 1 <= 0.8 * h
MergesTruncated(line, prev) ==
    /\ GapTo(line, prev) >= 0
    /\ 5 * (GapTo(line, prev) + 1) <= 4 * prev.height
    /\ Abs(line.x - prev.x) < 2 * prev.height

MaxOf(S) == CHOOSE m \in S : \A v \in S : v <= m

RECURSIVE JoinedTexts(_, _, _)
JoinedTexts(lines, from, to) ==
    IF from = to THEN lines[from].text
    ELSE lines[from].text \o <<" ">> \o JoinedTexts(lines, from + 1, to)

\* the regions of lines when Merges decides which line joins the one before:
\* one region per maximal run of merging lines, with the first line's origin,
\* the largest width and height and the texts joined by single spaces
RegionsOf(lines, Merges(_, _)) ==
    LET n == Len(lines)
        starts == { i \in 1..n : i = 1 \/ ~Merges(lines[i], lines[i - 1]) }
        Start(k) == CHOOSE b \in starts :
                       Cardinality({ t \in starts : t <= b }) = k
        End(b) == IF \E t \in starts : t > b
                  THEN (CHOOSE t \in starts :
                           t > b /\ \A u \in starts : u > b => t <= u) - 1
                  ELSE n
    IN [k \in 1..Cardinality(starts) |->
           [text |-> JoinedTexts(lines, Start(k), End(Start(k))),
            x |-> lines[Start(k)].x,
            y |-> lines[Start(k)].y,
            width |-> MaxOf({ lines[j].width : j \in Start(k)..End(Start(k)) }),
            height |-> MaxOf({ lines[j].height : j \in Start(k)..End(Start(k)) })]]

\* C17 as stated: a line joins the paragraph iff its gap to the previous
\* line is in [0, 0.8 * prev.height) and its horizontal offset is below
\* 2 * prev.height; a region has the first line's origin, the maximum width
\* and height and the texts joined by single spaces.
C17_MergeIffGapBelowEightTenths ==
    (call.op = "group_into_paragraphs" /\ call.done) =>
        call.result = RegionsOf(call.lines, MergesAsStated)

\* C17 amended: the same with the upper limit of the gap being
\* 0.8 * prev.height truncated to an integer.
C17_MergeIffGapBelowTruncatedLimit ==
    (call.op = "group_into_paragraphs" /\ call.done) =>
        call.result = RegionsOf(call.lines, MergesTruncated)

\* height 21, gap 16: below 16.8 but not below 16, so two regions
C17_Witness ==
    /\ call.op = "group_into_paragraphs"
    /\ call.done
    /\ call.lines = << RawLine("f", 0, 0, 100, 21), RawLine("g", 0, 37, 110, 20) >>
    /\ Len(call.result) = 2

\* the raw lines of the example: y = 0, 18 and 80, height 20, equal x
OverlapExample ==
    << RawLine("a", 0, 0, 100, 20), RawLine("b", 0, 18, 120, 20),
       RawLine("c", 0, 80, 90, 20) >>

\* C18 as stated: the lines at y = 0 and y = 18 (gap -2) merge and the line
\* at y = 80 is on its own: exactly 2 regions.
C18_OverlappingLinesMerge ==
    (call.op = "group_into_paragraphs" /\ call.done
       /\ call.lines = OverlapExample) =>
        /\ Len(call.result) = 2
        /\ call.result[1].text = <<"a", " ", "b">>
        /\ call.result[2].text = <<"c">>

\* C18 amended: a line whose gap to the previous line is negative never
\* joins it; the example gives exactly 3 regions, one per line.
C18_OverlappingLinesStaySeparate ==
    (call.op = "group_into_paragraphs" /\ call.done) =>
        /\ \A i \in 2..Len(call.lines) :
              GapTo(call.lines[i], call.lines[i - 1]) < 0 =>
                 \E k \in 1..Len(call.result) :
                    /\ call.result[k].y = call.lines[i].y
                    /\ call.result[k].x = call.lines[i].x
                    /\ SubSeq(call.result[k].text, 1, 1) = call.lines[i].text
        /\ call.lines = OverlapExample => call.result = OverlapExample

C18_Witness ==
    /\ call.op = "group_into_paragraphs"
    /\ call.done
    /\ call.lines = OverlapExample
    /\ Len(call.result) = 3
    /\ call.result[2].text = <<"b">>

\* ---------------------------------------------------------------- C20
\* a render()/clear() call that got past the early return
C20_Attempted == ov.state = "bound" /\ ov.last.op # "none" /\ ~ov.last.early

\* C20 as stated: on the recreate error the resources are rebuilt exactly
\* once and the operation is retried exactly once with the same input, the
\* retry's outcome being returned; on any other error nothing is rebuilt or
\* retried and that error is returned.
C20_RecreateAlwaysRetriesOnce ==
    C20_Attempted =>
        /\ ov.last.first = D2DERR_RECREATE_TARGET =>
              /\ ov.last.rebuilds = 1
              /\ ov.last.attempts = <<ov.last.input, ov.last.input>>
        /\ ov.last.first \notin {"ok", D2DERR_RECREATE_TARGET} =>
              /\ ov.last.rebuilds = 0
              /\ ov.last.attempts = <<ov.last.input>>
              /\ ov.last.result = ov.last.first

\* C20 amended: on the recreate error the resources are discarded and one
\* rebuild is attempted; if it succeeds the operation is retried exactly once
\* with the same input and the retry's outcome is returned (a successful
\* retry presents that input), if it fails the rebuild's error is returned
\* without a retry; on any other error nothing is rebuilt or retried and
\* that error is returned.
C20_RecreateRetriesOnceIfRebuilt ==
    C20_Attempted =>
        /\ ov.last.first = D2DERR_RECREATE_TARGET =>
              /\ ov.last.rebuilds = 1
              /\ ov.memory_dc
              /\ IF ov.last.rebuild_ok
                 THEN /\ ov.last.attempts = <<ov.last.input, ov.last.input>>
                      /\ ov.dc_render_target /\ ov.bg_brush /\ ov.text_brush
                      /\ ov.text_format_cache \subseteq FormatKeys(ov.last.input)
                      /\ ov.last.result = "ok" =>
                            ov.presented =
                               IF ov.last.op = "render"
                               THEN [kind |-> "draw", texts |-> ov.last.input]
                               ELSE [kind |-> "clear", texts |-> <<>>]
                 ELSE /\ ov.last.attempts = <<ov.last.input>>
                      /\ ov.last.result \in Codes
                      /\ ~ov.dc_render_target
                      /\ ov.text_format_cache = {}
        /\ ov.last.first \notin {"ok", D2DERR_RECREATE_TARGET} =>
              /\ ov.last.rebuilds = 0
              /\ ov.last.attempts = <<ov.last.input>>
              /\ ov.last.result = ov.last.first
        /\ Len(ov.last.attempts) <= 2

\* the second render() lost its target, rebuilt, and its retry succeeded:
\* the formats of the first call are gone, the input is on screen
C20_Witness ==
    /\ ov.state = "bound"
    /\ ov.calls = 2
    /\ ov.last.op = "render"
    /\ ov.last.input = <<124>>
    /\ ov.last.first = D2DERR_RECREATE_TARGET
    /\ ov.last.rebuild_ok
    /\ ov.last.result = "ok"
    /\ ov.text_format_cache = {12}
    /\ ov.presented = [kind |-> "draw", texts |-> <<124>>]

\* ---------------------------------------------------------------- C21
\* a capture_frame() call that saw a positive client size
C21_Captured ==
    cap.state = "live" /\ cap.last.result \in {"frame", "err"}

\* C21: a capture goes through the (re)allocation exactly when no surface
\* exists or the client size differs from the surface's size, and then
\* exactly once, the previous surface being released first; a capture at
\* the size of the existing surface allocates and releases nothing; after a
\* successful capture the surface has the client size.
C21_ReallocExactlyOnSizeChange ==
    C21_Captured =>
        LET l == cap.last
            needed == \/ ~l.had_surface
                      \/ l.width # l.old_width \/ l.height # l.old_height
        IN /\ l.attempts = IF needed THEN 1 ELSE 0
           /\ l.freed = IF needed /\ l.had_surface THEN 1 ELSE 0
           /\ l.allocs <= l.attempts
           /\ l.result = "frame" =>
                 /\ l.allocs = l.attempts
                 /\ cap.memory_dc
                 /\ cap.width = l.width /\ cap.height = l.height
           /\ l.result = "err" => ~cap.memory_dc

\* the third capture changed the size of an existing surface
C21_Witness ==
    /\ cap.state = "live"
    /\ cap.calls = 3
    /\ cap.last.had_surface
    /\ cap.last.old_width = 1 /\ cap.last.width = 2
    /\ cap.last.freed = 1 /\ cap.last.allocs = 1
    /\ cap.last.result = "frame"

\* ---------------------------------------------------------------- C22
\* C22 as stated: no capture_frame() call leaves a device context that is
\* neither released nor recorded in the frame source.
C22_NoDeviceContextLeaked ==
    cap.state # "none" => (cap.window_dcs = 0 /\ cap.orphan_dcs = 0)

\* ---------------------------------------------------------------- C23
\* a fatal set-up error of the current run: OCREngine::new (or another
\* set-up step of the polling thread) failed, or the overlay thread ended
\* before it spawned the polling thread
C23_SetupFailed ==
    \/ pt_exit = "setup_error"
    \/ (runs > 0 /\ ot_pc = "finished" /\ pt_pc = "none")

\* C23 as stated: after a fatal set-up error the run is aborted and the UI
\* learns of it: both threads of the run end and the status leaves Running.
C23_SetupErrorAbortsRun ==
    C23_SetupFailed ~>
        (ot_pc = "finished" /\ pt_pc \in {"none", "done"} /\ status # "Running")

\* ---------------------------------------------------------------- C24
GraphicsObjects ==
    {"bg_brush", "text_brush", "text_format_cache", "dc_render_target",
     "factory", "write_factory"}

SurfaceObjects == {"bitmap", "memory_dc"}

\* C24 as stated: on teardown every graphics object of the renderer is
\* released before the OS surface is deleted, the surface before the COM
\* shutdown, and nothing of the renderer is released after the shutdown.
C24_TeardownInReverseOrder ==
    ov.state = "dropped" =>
        LET t == ov.teardown
        IN \A i, j \in 1..Len(t) :
              /\ (t[i] \in GraphicsObjects /\ t[j] \in SurfaceObjects) => i < j
              /\ (t[i] \in SurfaceObjects /\ t[j] = "CoUninitialize") => i < j
              /\ (t[i] \in GraphicsObjects /\ t[j] = "CoUninitialize") => i < j

\* ---------------------------------------------------------------- C25
\* the renderer is touched: a command is applied to it (render, clear and
\* the rebuild inside them) or it is released with the window state
C25_RendererTouched == applied' # applied \/ rx_alive' # rx_alive

\* C25: within a run only steps of the overlay thread (its set-up and the
\* window procedure it dispatches to) touch the renderer; a step of the
\* polling thread leaves renderer and window alone and at most appends one
\* command to the channel or posts one message; a step of the UI at most
\* posts a message.
C25_OnlyMessageLoopTouchesRenderer ==
    [][/\ (runs' = runs /\ C25_RendererTouched)
            => (OT_Setup \/ OT_DispatchRender \/ OT_DispatchClose)
       /\ PollingThread
            => /\ ~C25_RendererTouched
               /\ window_alive' = window_alive
               /\ queue' = queue \/ queue' = Append(queue, emitted'[Len(emitted')])
               /\ \/ msgq' = msgq
                  \/ msgq' = Append(msgq, WM_RENDER)
                  \/ msgq' = Append(msgq, WM_CLOSE)
       /\ (runs' = runs /\ (UI \/ UI_OnExit \/ UI_ExitJoin))
            => /\ ~C25_RendererTouched
               /\ queue' = queue
               /\ msgq' = msgq \/ msgq' = Append(msgq, WM_CLOSE)]_vars

\* two commands were applied by the window procedure and the renderer was
\* then released with the window, all while the polling thread ran
C25_Witness ==
    /\ Len(applied) = 2
    /\ ~rx_alive
    /\ ot_pc = "finished"
    /\ pt_exit = "receiver_dropped"
    /\ Len(emitted) = 2

\* ---------------------------------------------------------------- C26
\* C26: stop() returns at once (the UI stays in its event loop whatever the
\* threads are doing); a UI refresh takes and joins the thread handle only
\* when the overlay thread has finished, and only then does the status go
\* from Stopping to Idle; the UI waits in a join only in on_exit.
C26_StopNeverBlocksUi ==
    [][/\ UI_Stop => (ui_pc' = "run" /\ status' = "Stopping")
       /\ (status = "Stopping" /\ status' = "Idle") => ot_pc = "finished"
       /\ (overlay_thread /\ ~overlay_thread' /\ ui_pc' = "run")
            => (ot_pc = "finished" /\ status' = "Idle")
       /\ (ui_pc = "run" /\ ui_pc' = "joining")
            => (UI_OnExit /\ ot_pc # "none")
       /\ ui_pc = "joining" => status' = status]_vars

\* Stop was pressed while the polling thread is in a translate call and the
\* message loop has not seen WM_CLOSE yet: the UI is back in its event loop
C26_Witness ==
    /\ status = "Stopping"
    /\ ui_pc = "run"
    /\ overlay_thread
    /\ ot_pc = "msg_loop"
    /\ pt_pc = "translating"
    /\ msgq # <<>> /\ msgq[Len(msgq)] = WM_CLOSE

\* ---------------------------------------------------------------- C27
\* a language of the family of the configured source language
C27_InFamily(tag, source_lang) == StartsWith(ToLower(tag), ToLower(source_lang))

\* C27 as stated: the recognizer chosen is one for the configured source
\* language family when one is installed, otherwise the first available
\* language, and the selection fails only when no language is available.
C27_PrefersConfiguredLanguage ==
    (call.op = "OCREngine_new" /\ call.done) =>
        LET family == { i \in 1..Len(call.langs) :
                           C27_InFamily(call.langs[i], call.source_lang) }
        IN /\ ~call.ok => call.langs = <<>>
           /\ (call.ok /\ family # {}) =>
                 C27_InFamily(call.engine, call.source_lang)
           /\ (call.ok /\ family = {}) => call.engine = call.langs[1]

\* ---------------------------------------------------------------- C28
\* the last command sent to the renderer was a Draw
DrawnBefore == emitted # <<>> /\ emitted[Len(emitted)].kind = "Draw"

\* the polling thread is in a not-foreground tick
C28_InNotForegroundTick ==
    pt_pc \in {"send_clear_fg", "wake_clear_fg", "sleep500"}

\* C28: a not-foreground tick sends Clear exactly if the last thing sent was
\* a Draw, then sleeps 500 ms and goes back to the stop check; it does not
\* translate, leaves cache, cache file and renderer alone, and ends early
\* only when the receiver is gone. Hence no Clear directly follows a Clear.
C28_NotForegroundTick ==
    [][/\ PT_NotForeground
            => /\ pt_pc' = IF DrawnBefore THEN "send_clear_fg" ELSE "sleep500"
               /\ emitted' = emitted /\ queue' = queue /\ msgq' = msgq
               /\ translate_result' = "none" /\ uncached' = <<>>
       /\ (pt_pc = "send_clear_fg" /\ pt_pc' # pt_pc)
            => \/ pt_pc' = "wake_clear_fg" /\ emitted' = Append(emitted, Clear)
               \/ /\ pt_pc' = "done" /\ pt_exit' = "receiver_dropped"
                  /\ emitted' = emitted /\ ~rx_alive
       /\ (pt_pc = "wake_clear_fg" /\ pt_pc' # pt_pc)
            => pt_pc' = "sleep500" /\ emitted' = emitted
       /\ (pt_pc = "sleep500" /\ pt_pc' # pt_pc)
            => pt_pc' = "top" /\ slept' = <<500>> /\ emitted' = emitted
       /\ (C28_InNotForegroundTick \/ PT_NotForeground)
            => /\ translation_cache' = translation_cache
               /\ saved' = saved
               /\ translate_result' = "none"
               /\ PollingThread => (rx_alive' = rx_alive /\ applied' = applied)
       /\ \A i \in 1..(Len(emitted') - 1) :
             ~(emitted'[i] = Clear /\ emitted'[i + 1] = Clear)]_vars

\* a Draw, then a not-foreground tick that sent the Clear and now sleeps
C28_Witness ==
    /\ pt_pc = "sleep500"
    /\ ticks = 2
    /\ Len(emitted) = 2
    /\ emitted[1].kind = "Draw"
    /\ emitted[2] = Clear
    /\ prev_texts = <<>>
    /\ slept = <<>>

\* ---------------------------------------------------------------- C29
\* the tick recognized no region
C29_EmptyFrameStep == PT_Recognized /\ current_texts' = <<>>

\* C29: a tick that recognizes no region sends exactly one Clear and empties
\* the previous text list if that list was non-empty; if it was empty the
\* tick sends nothing and leaves the previous text list, the no-change
\* counter and the cache as they were.
C29_EmptyFrameTick ==
    [][/\ (C29_EmptyFrameStep /\ prev_texts # <<>>)
            => pt_pc' = "send_clear_empty" /\ emitted' = emitted
       /\ (pt_pc = "send_clear_empty" /\ pt_pc' = "wake_clear_empty")
            => emitted' = Append(emitted, Clear)
       /\ (pt_pc = "wake_clear_empty" /\ pt_pc' # pt_pc)
            => /\ prev_texts' = <<>>
               /\ emitted' = emitted
               /\ translation_cache' = translation_cache
       /\ (C29_EmptyFrameStep /\ prev_texts = <<>>)
            => /\ pt_pc' = "sleep"
               /\ emitted' = emitted
               /\ queue' = queue
               /\ prev_texts' = prev_texts
               /\ no_change_count' = no_change_count
               /\ translation_cache' = translation_cache]_vars

\* ---------------------------------------------------------------- C30
\* the current regions that have a cache entry, in region order, replaced
\* by their cached translations
C30_CachedNow ==
    LET hit == SelectSeq(current_texts,
                         LAMBDA r : translation_cache[r] # None)
    IN  [k \in 1..Len(hit) |-> translation_cache[hit[k]]]

\* the tick recognized a non-empty list that differs from the previous one
C30_ChangedStep ==
    /\ PT_Recognized
    /\ current_texts' # <<>>
    /\ current_texts' # prev_texts

\* C30: a tick whose recognized list changed goes through the translation
\* step (if any region is uncached), whatever its outcome, to exactly one
\* send of Draw; the Draw carries, in region order, the cached translations
\* of the current regions that have a cache entry at the time of the send and
\* omits the others; no Draw is sent anywhere else, and the send is lost
\* only if the receiver is already gone.
C30_DrawFromCacheOnChange ==
    [][/\ C30_ChangedStep
            => /\ pt_pc' \in {"translating", "send_draw"}
               /\ emitted' = emitted
       /\ (pt_pc = "translating" /\ pt_pc' # pt_pc)
            => pt_pc' \in {"inserting", "send_draw"} /\ emitted' = emitted
       /\ pt_pc = "inserting"
            => pt_pc' \in {"inserting", "send_draw"} /\ emitted' = emitted
       /\ (pt_pc = "send_draw" /\ pt_pc' # pt_pc)
            => \/ /\ pt_pc' = "wake_draw"
                  /\ emitted' = Append(emitted, Draw(C30_CachedNow))
               \/ /\ pt_pc' = "done" /\ pt_exit' = "receiver_dropped"
                  /\ emitted' = emitted /\ ~rx_alive
       /\ (pt_pc = "wake_draw" /\ pt_pc' # pt_pc)
            => pt_pc' = "sleep" /\ emitted' = emitted
       /\ (emitted' # emitted /\ emitted'[Len(emitted')].kind = "Draw")
            => pt_pc = "send_draw" /\ Len(emitted') = Len(emitted) + 1
       /\ (PT_Recognized /\ ~C30_ChangedStep)
            => pt_pc' \notin {"translating", "send_draw"}]_vars

\* a Draw that omits an uncached region and keeps a cached one, sent after
\* a failed translate call
C30_Witness ==
    /\ pt_pc = "wake_draw"
    /\ translate_result = "err"
    /\ Len(current_texts) = 2
    /\ emitted # <<>>
    /\ emitted[Len(emitted)].kind = "Draw"
    /\ Len(emitted[Len(emitted)].texts) = 1
    /\ translation_cache[current_texts[1]] = None
    /\ translation_cache[current_texts[2]] # None

\* ---------------------------------------------------------------- C31
\* this step is a capture_frame call
C31_CaptureStep == cap.state = "live" /\ cap'.calls = cap.calls + 1

\* C31: capture_frame returns no frame exactly when it has read a client
\* size with a zero width or height, and then neither frees nor allocates
\* the surface; the tick of that call sends nothing, starts no translation,
\* leaves the previous text list, the no-change counter, the cache and the
\* cache file as they were and goes to the sleep of the interval chosen at
\* the top of the tick.
C31_NoFrameTickIsSkipped ==
    [][/\ C31_CaptureStep
            => /\ cap'.last.result = "none"
                    <=> /\ cap'.last.result # "err_client_rect"
                        /\ cap'.last.width = 0 \/ cap'.last.height = 0
               /\ cap'.last.result = "none"
                    => /\ cap'.state = "live"
                       /\ cap'.memory_dc = cap.memory_dc
                       /\ cap'.width = cap.width
                       /\ cap'.height = cap.height
                       /\ cap'.last.freed = 0
                       /\ cap'.last.attempts = 0
                       /\ pt_pc' = "sleep"
                       /\ slept' = <<>>
                       /\ translate_result' = "none"
                       /\ uncached' = <<>>
                       /\ emitted' = emitted
                       /\ queue' = queue
                       /\ msgq' = msgq
                       /\ prev_texts' = prev_texts
                       /\ no_change_count' = no_change_count
                       /\ translation_cache' = translation_cache
                       /\ saved' = saved
       /\ (pt_pc = "sleep" /\ pt_pc' # pt_pc)
            => /\ pt_pc' = "top"
               /\ slept' = Append(slept, interval)
               /\ emitted' = emitted
               /\ prev_texts' = prev_texts
               /\ no_change_count' = no_change_count]_vars

\* a tick that found the window at zero size after an earlier tick had
\* allocated a surface and drawn something
C31_Witness ==
    /\ cap.state = "live"
    /\ cap.calls = 2
    /\ cap.last.result = "none"
    /\ cap.last.width = 0
    /\ cap.last.height = 2
    /\ cap.memory_dc
    /\ cap.width = 2
    /\ pt_pc = "sleep"
    /\ ticks = 2
    /\ prev_texts # <<>>
    /\ no_change_count = 0

\* ---------------------------------------------------------------- C32
\* C32: render() and clear() release every screen device context they
\* acquire, on every exit path: no renderer ever holds an unreleased one.
C32_NoScreenDcLeaked == ov.state # "none" => ov.screen_dcs = 0

\* ---------------------------------------------------------------- C33
\* the key as stated: the font size rounded to the nearest integer, and at
\* least 8 (sizes are in tenths of a point)
C33_RoundedKey(font_size) ==
    LET r == (font_size + 5) \div 10 IN IF r < 8 THEN 8 ELSE r

\* C33: after a render() call that drew its items the format cache holds,
\* for every item, a format under the key max(8, round(font_size)), and
\* every key in the cache is at least 8.
C33_FormatKeyIsRoundedSize ==
    (ov.state = "bound" /\ ov.last.op = "render" /\ ~ov.last.early
        /\ ov.last.result = "ok")
    => /\ \A i \in 1..Len(ov.last.input) :
             C33_RoundedKey(ov.last.input[i]) \in ov.text_format_cache
       /\ \A k \in ov.text_format_cache : k >= 8

\* ---------------------------------------------------------------- C34
\* C34: in the commands sent by the polling loop every Clear directly
\* follows a Draw: the first command is not a Clear and no Clear follows a
\* Clear.
C34_ClearOnlyAfterDraw ==
    \A i \in 1..Len(emitted) :
        emitted[i].kind = "Clear"
            => (i > 1 /\ emitted[i - 1].kind = "Draw")

\* a Draw, a Clear, and then a not-foreground tick that sent nothing
C34_Witness ==
    /\ ticks = 3
    /\ pt_pc = "sleep500"
    /\ slept = <<>>
    /\ Len(emitted) = 2
    /\ emitted[1].kind = "Draw"
    /\ emitted[2] = Clear

\* ---------------------------------------------------------------- C35
\* a thread of the pipeline is still running
C35_OverlayThreadRunning == ot_pc \notin {"none", "finished"}

C35_PollingThreadRunning == pt_pc \notin {"none", "done"}

\* C35: while the status is Idle or Error no overlay thread and no polling
\* thread is running, and start() launches a run only in those statuses,
\* so a new run never overlaps an earlier one.
C35_AtMostOneRunAlive ==
    [][/\ status \in {"Idle", "Error"}
            => ~C35_OverlayThreadRunning /\ ~C35_PollingThreadRunning
       /\ status' \in {"Idle", "Error"}
            => ~C35_OverlayThreadRunning' /\ ~C35_PollingThreadRunning'
       /\ runs' # runs
            => /\ status \in {"Idle", "Error"}
               /\ ~C35_OverlayThreadRunning /\ ~C35_PollingThreadRunning
               /\ runs' = runs + 1
               /\ ~stop_signal'
               /\ ot_pc' = "create_window" /\ pt_pc' = "none"]_vars

\* a second run, started after the first one was stopped and had ended, is
\* in its message loop with its polling loop running
C35_Witness ==
    /\ runs = 2
    /\ status = "Running"
    /\ ot_pc = "msg_loop"
    /\ pt_pc = "top"
    /\ ~stop_signal

\* ---------------------------------------------------------------- C36
\* C36: the published window handle is non-zero only while the overlay
\* window of the current run exists, so stop() never posts WM_CLOSE to a
\* window that is gone.
C36_HandlePublishedOnlyWhileWindowExists ==
    [][/\ overlay_hwnd_raw # 0 => (window_alive /\ overlay_hwnd_raw = runs)
       /\ (UI_Stop /\ overlay_hwnd_raw # 0) => window_alive]_vars

\* ---------------------------------------------------------------- C37
\* this step is a render() or clear() call on a renderer that was set up
C37_CallStep == ov.state = "bound" /\ ov'.state = "bound" /\ ov' # ov

\* C37: a call whose rebuild fails returns the rebuild's error after a single
\* drawing attempt and leaves the renderer without a render target; every
\* call on a renderer without a render target returns success at once,
\* draws and presents nothing, and leaves it without a render target.
C37_FailedRebuildDisablesRenderer ==
    [][C37_CallStep
          => /\ ov'.calls = ov.calls + 1
             /\ (ov'.last.rebuilds = 1 /\ ~ov'.last.rebuild_ok)
                  => /\ ov'.last.result \in Codes
                     /\ Len(ov'.last.attempts) = 1
                     /\ ~ov'.dc_render_target
                     /\ ov'.presented = ov.presented
             /\ ~ov.dc_render_target
                  => /\ ov'.last.early
                     /\ ov'.last.result = "ok"
                     /\ ov'.last.attempts = <<>>
                     /\ ov'.last.rebuilds = 0
                     /\ ov'.presented = ov.presented
                     /\ ov'.screen_dcs = ov.screen_dcs
                     /\ ov'.text_format_cache = ov.text_format_cache
                     /\ ~ov'.dc_render_target
             /\ ov'.dc_render_target => ov.dc_render_target]_vars

\* a render() call made after a call whose rebuild failed
C37_Witness ==
    /\ ov.state = "bound"
    /\ ov.calls = 2
    /\ ov.memory_dc
    /\ ~ov.dc_render_target
    /\ ov.last.op = "render"
    /\ ov.last.input # <<>>
    /\ ov.last.early
    /\ ov.last.result = "ok"

\* ---------------------------------------------------------------- C38
\* the overlay window of a run that had installed its WndState is destroyed
C38_Released == ~window_alive /\ pt_pc # "none"

\* the polling thread is about to call tx.send
C38_AtSend == pt_pc \in {"send_draw", "send_clear_fg", "send_clear_empty"}

\* C38: once the overlay window is destroyed its receiver is dropped with
\* it and stays so; from then on nothing is applied to the renderer, a
\* WM_RENDER handled later applies nothing, and the next tx.send of the
\* polling loop fails and ends the loop with nothing enqueued.
C38_NothingAppliedAfterRelease ==
    [][C38_Released
          => /\ ~rx_alive
             /\ runs' = runs => (C38_Released' /\ ~rx_alive')
             /\ runs' = runs => applied' = applied
             /\ runs' = runs => (queue' = queue /\ emitted' = emitted)
             /\ (C38_AtSend /\ pt_pc' # pt_pc /\ runs' = runs)
                  => pt_pc' = "done" /\ pt_exit' = "receiver_dropped"]_vars

\* the first command was applied; the send of the second tick found the
\* receiver dropped and ended the polling loop
C38_Witness ==
    /\ ~window_alive
    /\ ~rx_alive
    /\ pt_pc = "done"
    /\ pt_exit = "receiver_dropped"
    /\ ticks = 2
    /\ Len(emitted) = 1
    /\ applied = emitted

\* ---------------------------------------------------------------- C39
\* the k-th smallest element of a set of line indices
C39_Nth(starts, k) ==
    CHOOSE b \in starts : Cardinality({ t \in starts : t <= b }) = k

\* regions cuts lines into consecutive runs that begin at the indices in
\* starts: region k has the origin of the first line of run k and the texts
\* of the run joined by single spaces
C39_CutAt(lines, regions, starts) ==
    /\ 1 \in starts
    /\ Cardinality(starts) = Len(regions)
    /\ \A k \in 1..Len(regions) :
          LET b == C39_Nth(starts, k)
              e == IF k < Len(regions) THEN C39_Nth(starts, k + 1) - 1
                   ELSE Len(lines)
          IN /\ regions[k].x = lines[b].x
             /\ regions[k].y = lines[b].y
             /\ regions[k].text = JoinedTexts(lines, b, e)

\* C39: grouping n >= 1 raw lines gives between 1 and n regions that cut the
\* lines into consecutive runs in input order, each region starting at the
\* origin of its first line, and the region texts joined by single spaces
\* are the line texts joined by single spaces; grouping no line gives no
\* region.
C39_GroupingConservesLines ==
    (call.op = "group_into_paragraphs" /\ call.done)
    => LET lines == call.lines
           regions == call.result
       IN IF lines = <<>> THEN regions = <<>>
          ELSE /\ Len(regions) >= 1
               /\ Len(regions) <= Len(lines)
               /\ \E starts \in SUBSET (1..Len(lines)) :
                     C39_CutAt(lines, regions, starts)
               /\ JoinedTexts(regions, 1, Len(regions))
                    = JoinedTexts(lines, 1, Len(lines))

\* three lines of which the first two merge: two regions, "a d" and "c"
C39_Witness ==
    /\ call.op = "group_into_paragraphs"
    /\ call.done
    /\ call.lines = << RawLine("a", 0, 0, 100, 20), RawLine("d", 0, 30, 150, 10),
                       RawLine("c", 0, 80, 90, 20) >>
    /\ Len(call.result) = 2
    /\ call.result[1].text = <<"a", " ", "d">>
    /\ call.result[2].text = <<"c">>
    /\ call.result[2].y = 80

====
